---- MODULE Spec2Model ----
(***************************************************************************)
(* State-machine model of the concurrency core of the scrape repository:   *)
(*   - TaskOrchestrator.processBatch  (src/src/orchestrator/orchestrator.js)*)
(*   - ParallelScraper.extractMultiple / processBatch                       *)
(*                               (src/src/performance/parallel-scraper.js)  *)
(*   - the Semaphore class both files define                                *)
(*   - ErrorHandler.withRetry / isRecoverable, Result (src/errors/index.js, *)
(*     held in src/unnamed/part_006)                                        *)
(*   - BrowserPool and PerformanceMonitor timers                            *)
(*                               (src/src/performance/monitor.js)           *)
(*   - CircuitBreaker                (src/src/errors/recovery.js)           *)
(*   - the retry loops ErrorHandler.withRetry and                           *)
(*     TaskOrchestrator.executeWithRetry, with their backoff waits          *)
(*   - LearningStorage (src/learning/storage.js, held in                    *)
(*     src/unnamed/part_005) and the use SmartScraper.extract makes of it   *)
(*     (src/smart.js, held in src/unnamed/part_008)                         *)
(*   - the Semaphore used by itself, ErrorRecovery.recover                  *)
(*     (src/src/errors/recovery.js), the queue of the TaskOrchestrator, its *)
(*     'Task timeout' race, and repeated ParallelScraper.extractMultiple    *)
(* A behaviour exercises one object: `component` says which.  The batch     *)
(* objects, the BrowserPool, the CircuitBreaker and a retry loop taken by   *)
(* itself share no state in the source.                                     *)
(* Every action is one run-to-completion segment of JavaScript: the code    *)
(* between two awaits of one async function.                                *)
(***************************************************************************)
EXTENDS Integers, Sequences, FiniteSets, TLC

\* ---------------------------------------------------------------- bounds
NumTasks == 3            \* requests in a batch
MaxConcurrentBound == 2  \* configured maxConcurrent ranges over 0..MaxConcurrentBound
MaxRetryBound == 2       \* configured retryAttempts / maxRetries ranges over 0..MaxRetryBound
PoolSize == 2            \* contexts BrowserPool.initialize pre-creates
NumJobs == 3             \* concurrent users of the BrowserPool
NumCallers == 2          \* concurrent callers of CircuitBreaker.execute
MaxCalls == 5            \* execute calls in one behaviour
MaxTime == 4             \* Date.now() ranges over 0..MaxTime
MaxThreshold == 2        \* failureThreshold ranges over 1..MaxThreshold
MaxResetTimeout == 2     \* resetTimeout ranges over 1..MaxResetTimeout
MaxHalfOpenRetries == 2  \* halfOpenRetries ranges over 1..MaxHalfOpenRetries
MaxAttemptsBound == 3    \* maxRetries / retryAttempts of a retry loop: 0..MaxAttemptsBound
NumCacheTasks == 2       \* concurrent users of the LearningStorage
MaxCacheOps == 4         \* LearningStorage / SmartScraper calls in one behaviour
MaxSoloOps == 2          \* LearningStorage calls of a user who is by itself
MaxAgingOps == 1         \* the same, in the behaviours over all ages of an entry
NumSemUsers == 3          \* users of the Semaphore that is exercised by itself
MaxSemAcquires == 4       \* acquire calls in one such behaviour
MaxRecoverCalls == 3      \* recover calls in one behaviour
MaxAdds == 3              \* addToQueue calls in one behaviour
MaxRuns == 2              \* processQueue calls in one behaviour
MaxRepeats == 1           \* repeated extractMultiple calls in one behaviour
NumRaceTasks == 2         \* tasks of the batch whose attempts can time out
MaxFaults == 1           \* reads and writes of the file that fail in one behaviour
TicksPerDay == 2         \* resolution of the clock: ticks in a day

\* ------------------------------------------------------ program constants
MaxSharedContexts == 5   \* Math.min(this.options.maxConcurrent, 5)

Tasks == 1..NumTasks
NoTask == 0
NoContext == 0

Min(a, b) == IF a < b THEN a ELSE b

Range(s) == {s[x] : x \in DOMAIN s}

\* --------------------------------------------------------------- errors
\* An error value: its class, its message and the flag isRecoverable reads
\* (context.timeout, isRecoverable, context.temporary).
NavigationTimeout ==
  [cls |-> "NavigationError", message |-> "Navigation timeout", flag |-> TRUE]
ExtractionFailed ==
  [cls |-> "ExtractionError", message |-> "No content extracted", flag |-> FALSE]
TaskTimeout ==
  [cls |-> "Error", message |-> "Task timeout", flag |-> FALSE]
\* `throw lastError` with lastError never assigned throws the value undefined.
Undefined == [cls |-> "undefined", message |-> "", flag |-> FALSE]
\* The default parameter `error = null` of Result's constructor.
Null == [cls |-> "null", message |-> "", flag |-> FALSE]
\* Reading .message of undefined or null.
TypeErrorOf(e) ==
  [cls |-> "TypeError",
   message |-> "Cannot read properties of " \o e.cls \o " (reading 'message')",
   flag |-> FALSE]
NoError == [cls |-> "none", message |-> "", flag |-> FALSE]

IsNullish(e) == e.cls \in {"undefined", "null"}

\* What one extraction attempt can end with, besides success.
AttemptErrors(im) ==
  IF im = "orchestrator"
    THEN {ExtractionFailed, TaskTimeout}
    ELSE {NavigationTimeout, ExtractionFailed}

IsRecoverable(error) ==
  \/ error.cls = "NavigationError" /\ error.flag
  \/ error.cls = "RateLimitError"
  \/ error.cls = "DetectionError" /\ error.flag
  \/ error.cls = "ExtractionError" /\ error.flag

\* ---------------------------------------------------------------- state
VARIABLES
  component,          \* "batch", "pool", "breaker", "retry", "cache", "solo", "aging",
                      \* "semaphore", "recover", "queue", "race":
                      \* the object this behaviour exercises
  impl,               \* "orchestrator" (TaskOrchestrator) or "parallel" (ParallelScraper)
  maxConcurrent,      \* options.maxConcurrent
  retryLimit,         \* options.retryAttempts / options.maxRetries
  sharedBrowser,      \* options.sharedBrowser (ParallelScraper)
  sem,                \* Semaphore: [currentConcurrent, queue]
  pc,                 \* position of each task's async callback
  attempt,            \* loop variable of executeWithRetry / withRetry
  thrown,             \* what the task's processing threw (NoError: it returned)
  outcome,            \* what the task's most recent extraction attempt did
  ctx,                \* the shared context a task's extractWithSharedContext holds
  sharedContexts,     \* ParallelScraper.sharedContexts
  contextCount,       \* contexts created by initializeSharedBrowser
  activeJobs,         \* activeJobs map (keys)
  stats,              \* ParallelScraper.stats: [total, completed, failed]
  taskResults,        \* TaskOrchestrator.results / errors maps (keys by task)
  results,            \* what processBatch returns: one slot per index
  batchState,         \* "idle", "running", "processed", "returned", "threw"
  formatted,          \* what extractMultiple returns (formatResults)
  availableContexts,  \* BrowserPool.availableContexts
  usedContexts,       \* BrowserPool.usedContexts
  timers,             \* PerformanceMonitor.timers (keys)
  poolPhase,          \* "open", "closing" (cleanup awaits the closes), "closed"
  jpc,                \* position of each pool user: "idle", "holding", "releasing"
  jctx,               \* the context a pool user holds or is releasing
  lastCall,           \* the most recent pool call that ended: [op, result], and
                      \* the handle of an ignored double release
  failureThreshold,   \* CircuitBreaker.failureThreshold
  resetTimeout,       \* CircuitBreaker.resetTimeout
  halfOpenRetries,    \* CircuitBreaker.halfOpenRetries
  state,              \* CircuitBreaker.state: "CLOSED", "OPEN", "HALF_OPEN"
  failures,           \* CircuitBreaker.failures
  lastFailureTime,    \* CircuitBreaker.lastFailureTime
  successCount,       \* CircuitBreaker.successCount
  now,                \* Date.now()
  cpc,                \* position of each execute caller: "idle", "running" (in `await fn()`)
  admittedIn,         \* history: the state in which a running call's fn was invoked
  calls,              \* history: number of execute calls made
  verdict,            \* history: what the most recent execute call did before its
                      \* first await: "rejected", "fallback" or "invoked"
  streak,             \* history: failed calls since the most recent successful one
  openedAt,           \* history: time of the most recent transition into OPEN
  probes,             \* history: successful calls in the current HALF_OPEN period
  executor,           \* "withRetry" (ErrorHandler) or "executeWithRetry" (TaskOrchestrator)
  maxRetries,         \* maxRetries / options.retryAttempts
  backoff,            \* backoff / options.retryDelay
  backoffMultiplier,  \* 2 in withRetry / options.backoffMultiplier
  rpc,                \* position of the retry loop: "idle", "calling", "waiting",
                      \* "returned", "threw"
  rattempt,           \* the loop variable `attempt`
  invocations,        \* history: the attempt number of each invocation of the operation
  attemptResults,     \* history: what each invocation ended with
  waits,              \* history: the delay of each backoff wait
  rthrown,            \* what the loop threw (NoError: nothing)
  clock,              \* Date.now(), in ticks
  file,               \* ~/.scrape/learning.json: the `domains` object it holds
  call,               \* each cache user's current or most recent call
  lpc,                \* position of each cache user: "idle", "read" (in readFile),
                      \* "purge" (cleanupOldEntries awaits its save), "save" (the
                      \* function awaits its save), "extracting" (extractAllData)
  fn,                 \* the LearningStorage method a cache user is in
  nested,             \* whether that method is the bustCache getLearnedPatterns calls
  xstage,             \* position of SmartScraper.extract: "none", "lookup", "learned",
                      \* "failure", "default", "success"
  ldata,              \* the parsed `data` a cache user's method works on
  ret,                \* what each cache user's most recent call returned
  learnedFailed,      \* history: how the learned extraction of an extract failed
  cacheOps,           \* history: number of calls made
  faults,             \* history: number of reads and writes of the file that failed
  quiet,              \* history of the user who is by itself: no failure or passage
                      \* of time has come between since its call (for a lookup:
                      \* since the call before it) began
  before,             \* history of that user: the file when its call began
  prev,               \* history of that user: the call it made before this one,
                      \* and the file when that call began
  everRecorded,       \* history: the (domain, category) pairs recordSuccess was called for
  seen,               \* history: per domain, the confidence of the latest lookup
                      \* since the latest step of a recordSuccess for it
  ssem,               \* a Semaphore used by itself: [currentConcurrent, queue]
  smax,               \* its maxConcurrent
  spc,                \* position of each of its users: "idle", "waiting" (in the
                      \* promise of acquire), "granted" / "woken" (acquire's
                      \* promise is resolved, the user has not resumed yet),
                      \* "holding"
  ticket,             \* history: the number of each user's latest acquire call
  stamp,              \* history: the number of acquire calls made when release
                      \* resumed the user
  issued,             \* history: number of acquire calls made
  recpc,              \* position of ErrorRecovery.recover: "idle", "awaiting" (in
                      \* `await strategy(error, context)`), "returned"
  errClass,           \* the class of the error passed to recover (error.constructor)
  contextKind,        \* the context passed to recover: "none" (undefined), "empty"
                      \* ({}) or "full" (page, url, browser, ... are there)
  strategyIndex,      \* the strategy recover awaits: its place in the registered list
  tried,              \* history: the strategies invoked, with what each ended in
  recovered,          \* what recover returned
  recoverCalls,       \* history: number of recover calls made
  queue,              \* TaskOrchestrator.queue: the ids of the queued tasks
  generated,          \* number of ids generateTaskId has made (ids are 1, 2, ...)
  qmax,               \* options.maxConcurrent of the orchestrator with the queue
  qactive,            \* its activeJobs map (keys)
  qresults,           \* its results map (keys)
  qerrors,            \* its errors map (keys)
  qstate,             \* processQueue: "idle", "running" (in `await processBatch`),
                      \* "returned"
  qtasks,             \* the `tasks` array of the processQueue in progress (ids)
  qsem,               \* the Semaphore of its processBatch
  qpc,                \* position of each of its callbacks: "waiting", "acquired",
                      \* "running" (in `await executeWithRetry`), "done"
  qid,                \* the taskId processTask generated in each callback
  issuedIds,          \* history: the ids addToQueue returned
  removedIds,         \* history: the ids removeFromQueue removed
  takenIds,           \* history: the ids of the tasks processQueue calls took
  lateIds,            \* history: the ids added since the latest processQueue call,
                      \* while it was running
  started,            \* history: the queue ids of the tasks processTask was called for
  runs,               \* history: number of processQueue calls made
  repeats,            \* history: number of extractMultiple calls made on the
                      \* ParallelScraper after its first one
  tmax,               \* options.maxConcurrent of the orchestrator whose attempts
                      \* can time out
  tretries,           \* its options.retryAttempts
  tsem,               \* the Semaphore of its processBatch
  tstate,             \* its processBatch: "idle", "running", "returned"
  tpc,                \* position of each callback: "waiting", "acquired", "racing"
                      \* (in `await Promise.race([execution, timeout])`),
                      \* "backoff", "done"
  tattempt,           \* the loop variable `attempt` of each executeWithRetry
  abandoned           \* the runTask executions that lost the race with their
                      \* timeout and have not settled yet (a number per task)

batchVars ==
  <<impl, maxConcurrent, retryLimit, sharedBrowser, sem, pc, attempt, thrown,
    outcome, ctx, sharedContexts, contextCount, activeJobs, stats, taskResults,
    results, batchState, formatted>>

poolVars ==
  <<availableContexts, usedContexts, timers, poolPhase, jpc, jctx, lastCall>>

breakerVars ==
  <<failureThreshold, resetTimeout, halfOpenRetries, state, failures,
    lastFailureTime, successCount, now, cpc, admittedIn, calls, verdict, streak,
    openedAt, probes>>

retryVars ==
  <<executor, maxRetries, backoff, backoffMultiplier, rpc, rattempt, invocations,
    attemptResults, waits, rthrown>>

cacheVars ==
  <<clock, file, call, lpc, fn, nested, xstage, ldata, ret, learnedFailed, cacheOps,
    faults, quiet, before, prev, everRecorded, seen>>

semVars == <<ssem, smax, spc, ticket, stamp, issued>>

recoverVars ==
  <<recpc, errClass, contextKind, strategyIndex, tried, recovered, recoverCalls>>

queueVars ==
  <<queue, generated, qmax, qactive, qresults, qerrors, qstate, qtasks, qsem, qpc,
    qid, issuedIds, removedIds, takenIds, lateIds, started, runs>>

raceVars == <<tmax, tretries, tsem, tstate, tpc, tattempt, abandoned>>

extraVars == <<semVars, recoverVars, queueVars, repeats, raceVars>>

vars ==
  <<component, batchVars, poolVars, breakerVars, retryVars, cacheVars, extraVars>>

\* ------------------------------------------------------------ Semaphore
SemaphoreNew == [currentConcurrent |-> 0, queue |-> <<>>]

\* acquire(): take a slot, or join the wait queue.
SemAcquire(s, max, t) ==
  IF s.currentConcurrent < max
    THEN [s EXCEPT !.currentConcurrent = @ + 1]
    ELSE [s EXCEPT !.queue = Append(@, t)]

\* Whether acquire() returned without waiting.
SemGranted(s, max) == s.currentConcurrent < max

\* release() that hands the slot to the waiter without having given it back.
SemReleaseNoDecrement(s) ==
  IF Len(s.queue) > 0
    THEN [currentConcurrent |-> s.currentConcurrent + 1, queue |-> Tail(s.queue)]
    ELSE [s EXCEPT !.currentConcurrent = @ - 1]

\* release() on a path that leaves the semaphore as it is.
SemReleaseSkipped(s) == s

\* release(): give the slot back, or hand it to the first waiter.
SemRelease(s) ==
  IF Len(s.queue) > 0
    THEN [currentConcurrent |-> (s.currentConcurrent - 1) + 1, queue |-> Tail(s.queue)]
    ELSE [s EXCEPT !.currentConcurrent = @ - 1]

\* release() that resumes the waiter that joined the queue last.
SemNextLast(s) == IF Len(s.queue) > 0 THEN s.queue[Len(s.queue)] ELSE NoTask

\* The waiter release() resumes.
SemNext(s) == IF Len(s.queue) > 0 THEN Head(s.queue) ELSE NoTask

\* --------------------------------------------------------------- Result
OkOutcome == [cls |-> "ok", message |-> "", flag |-> FALSE]

\* The payload the extraction collaborator returns for a URL.  Request i of
\* the batch asks for URL i.
UrlOf(i) == i
Payload(url) == url

EmptySlot ==
  [filled |-> FALSE, success |-> FALSE, url |-> 0, index |-> 0, data |-> 0,
   error |-> NoError, errorMessage |-> ""]

\* Result.ok({url, index, data, duration}) built by processUrlWithRetry.
ResultOk(url, index, data) ==
  [filled |-> TRUE, success |-> TRUE, url |-> url, index |-> index, data |-> data,
   error |-> Null, errorMessage |-> ""]

\* Result.fail(error): the constructor's default parameter turns undefined into null.
ResultFail(error) ==
  [filled |-> TRUE, success |-> FALSE, url |-> 0, index |-> 0, data |-> 0,
   error |-> IF error.cls = "undefined" THEN Null ELSE error, errorMessage |-> ""]

\* { success: true, data: result } of TaskOrchestrator.processBatch.
OrchSuccess(data) ==
  [filled |-> TRUE, success |-> TRUE, url |-> 0, index |-> 0, data |-> data,
   error |-> NoError, errorMessage |-> ""]

\* { success: false, error: error.message } of TaskOrchestrator.processBatch.
OrchFailure(error) ==
  [filled |-> TRUE, success |-> FALSE, url |-> 0, index |-> 0, data |-> 0,
   error |-> NoError, errorMessage |-> error.message]

\* results.push(value): the next free slot, in completion order.
StoreResultPush(res, index, value) ==
  LET free == {x \in DOMAIN res : ~res[x].filled}
      first == CHOOSE x \in free : \A y \in free : x <= y
  IN [res EXCEPT ![first] = value]

\* results[index] = ...  /  the slot Promise.all gives the index-th promise.
StoreResult(res, index, value) == [res EXCEPT ![index] = value]

\* ---------------------------------------------------- shared contexts
\* this.sharedContexts.pop()
PopContext(pool) == SubSeq(pool, 1, Len(pool) - 1)
PoppedContext(pool) == pool[Len(pool)]

\* The push placed after the extraction instead of in a finally.
ReturnContextOnSuccess(pool, c, ok) == IF ok THEN Append(pool, c) ELSE pool

\* finally { this.sharedContexts.push(context) } of extractWithSharedContext,
\* whatever the attempt ended with.
ReturnContext(pool, c, ok) == Append(pool, c)

\* extractSingle: the pool is used when sharedBrowser is set and a context is
\* pooled; otherwise a private SmartScraper does the extraction.
UsesSharedContext(shared, pool) == shared /\ Len(pool) > 0

\* -------------------------------------------------------- formatResults
RECURSIVE SelectSeq2(_, _)
SelectSeq2(s, keepOk) ==
  IF s = <<>> THEN <<>>
  ELSE IF Head(s).success = keepOk
         THEN <<Head(s)>> \o SelectSeq2(Tail(s), keepOk)
         ELSE SelectSeq2(Tail(s), keepOk)

SlotSeq(res) == [x \in 1..NumTasks |-> res[x]]

\* r.error.message throws when r.error is null.
FormatThrows(res) == \E x \in 1..NumTasks : ~res[x].success /\ IsNullish(res[x].error)

FormatResults(res, st) ==
  LET successful == SelectSeq2(SlotSeq(res), TRUE)
      failed == SelectSeq2(SlotSeq(res), FALSE)
  IN [summary |-> [total |-> st.total, successful |-> Len(successful),
                   failed |-> Len(failed)],
      successful |-> [x \in 1..Len(successful) |->
                        [url |-> successful[x].url, index |-> successful[x].index,
                         data |-> successful[x].data]],
      failed |-> [x \in 1..Len(failed) |->
                    [error |-> failed[x].error.message, code |-> failed[x].error.cls]]]

NoFormatted ==
  [summary |-> [total |-> 0, successful |-> 0, failed |-> 0],
   successful |-> <<>>, failed |-> <<>>]

\* ------------------------------------------------------ batch: actions
\* The semaphore after the callbacks of requests 1..n have each run up to
\* `await semaphore.acquire()`: tasks.map runs them in index order, each
\* synchronously up to its first await.
RECURSIVE MapAcquire(_, _, _)
MapAcquire(s, max, n) ==
  IF n = 0 THEN s ELSE SemAcquire(MapAcquire(s, max, n - 1), max, n)

\* initializeSharedBrowser: Math.min(maxConcurrent, 5) pre-created contexts.
InitialContextCount(shared, max) ==
  IF shared THEN Min(max, MaxSharedContexts) ELSE 0

\* extractMultiple / processBatch up to the point where every callback is
\* suspended in its first await.
StartBatch ==
  /\ component = "batch"
  /\ batchState = "idle"
  /\ batchState' = "running"
  /\ sem' = MapAcquire(sem, maxConcurrent, NumTasks)
  /\ pc' = [i \in Tasks |->
              IF SemGranted(MapAcquire(sem, maxConcurrent, i - 1), maxConcurrent)
                THEN "acquired" ELSE "waiting"]
  /\ IF impl = "parallel"
       THEN /\ stats' = [stats EXCEPT !.total = NumTasks]
            /\ contextCount' = InitialContextCount(sharedBrowser, maxConcurrent)
            /\ sharedContexts' =
                 [c \in 1..InitialContextCount(sharedBrowser, maxConcurrent) |-> c]
       ELSE UNCHANGED <<stats, contextCount, sharedContexts>>
  /\ UNCHANGED <<poolVars, breakerVars, retryVars, cacheVars, extraVars>>
  /\ UNCHANGED <<component, impl, maxConcurrent, retryLimit, sharedBrowser, attempt,
                 thrown, outcome, ctx, activeJobs, taskResults, results, formatted>>

\* The start of one attempt: runTask (orchestrator) or extractSingle up to
\* context.newPage() (parallel).
StartAttempt(i) ==
  /\ pc' = [pc EXCEPT ![i] = "running"]
  /\ IF impl = "parallel" /\ UsesSharedContext(sharedBrowser, sharedContexts)
       THEN /\ ctx' = [ctx EXCEPT ![i] = PoppedContext(sharedContexts)]
            /\ sharedContexts' = PopContext(sharedContexts)
       ELSE UNCHANGED <<ctx, sharedContexts>>

\* The callback resumes after `await semaphore.acquire()`: processTask /
\* processUrlWithRetry up to the first attempt's await.  With a retry limit
\* of 0 the retry loop runs no attempt and `throw lastError` throws undefined;
\* processTask's catch then reads error.message of undefined.
BeginTask(i) ==
  /\ component = "batch"
  /\ batchState = "running"
  /\ pc[i] = "acquired"
  /\ IF retryLimit = 0
       THEN /\ pc' = [pc EXCEPT ![i] = "settle"]
            /\ thrown' = [thrown EXCEPT ![i] =
                 IF impl = "orchestrator" THEN TypeErrorOf(Undefined) ELSE Undefined]
            /\ UNCHANGED <<attempt, ctx, sharedContexts, activeJobs>>
       ELSE /\ attempt' = [attempt EXCEPT ![i] = 1]
            /\ activeJobs' = activeJobs \cup {i}
            /\ StartAttempt(i)
            /\ UNCHANGED thrown
  /\ UNCHANGED <<poolVars, breakerVars, retryVars, cacheVars, extraVars>>
  /\ UNCHANGED <<component, impl, maxConcurrent, retryLimit, sharedBrowser, sem,
                 outcome, contextCount, stats, taskResults, results, batchState,
                 formatted>>

\* A loop that retries every error.
RetriesAfterAnyError(im, error, n, limit) == n < limit

\* Whether the retry loop makes another attempt after attempt `n` failed
\* with `error`.  executeWithRetry retries any error; withRetry only a
\* recoverable one.
RetriesAfter(im, error, n, limit) ==
  IF im = "orchestrator"
    THEN n < limit
    ELSE ~(~IsRecoverable(error) \/ n = limit)

\* One attempt ends: the extraction collaborator returns or throws (the race
\* with the 'Task timeout' timer included).  extractWithSharedContext's
\* finally gives the context back.
AttemptEnd(i) ==
  /\ component = "batch"
  /\ batchState = "running"
  /\ pc[i] = "running"
  /\ \E o \in {OkOutcome} \cup AttemptErrors(impl) :
       /\ outcome' = [outcome EXCEPT ![i] = o]
       /\ IF o = OkOutcome
            THEN /\ pc' = [pc EXCEPT ![i] = "settle"]
                 /\ thrown' = [thrown EXCEPT ![i] = NoError]
            ELSE IF RetriesAfter(impl, o, attempt[i], retryLimit)
                   THEN /\ pc' = [pc EXCEPT ![i] = "backoff"]
                        /\ UNCHANGED thrown
                   ELSE /\ pc' = [pc EXCEPT ![i] = "settle"]
                        /\ thrown' = [thrown EXCEPT ![i] = o]
       /\ IF ctx[i] # NoContext
            THEN /\ sharedContexts' = ReturnContext(sharedContexts, ctx[i], o = OkOutcome)
                 /\ ctx' = [ctx EXCEPT ![i] = NoContext]
            ELSE UNCHANGED <<sharedContexts, ctx>>
  /\ UNCHANGED <<poolVars, breakerVars, retryVars, cacheVars, extraVars>>
  /\ UNCHANGED <<component, impl, maxConcurrent, retryLimit, sharedBrowser, sem,
                 attempt, contextCount, activeJobs, stats, taskResults, results,
                 batchState, formatted>>

\* The backoff delay ends and the loop makes the next attempt.
BackoffEnd(i) ==
  /\ component = "batch"
  /\ batchState = "running"
  /\ pc[i] = "backoff"
  /\ attempt' = [attempt EXCEPT ![i] = @ + 1]
  /\ StartAttempt(i)
  /\ UNCHANGED <<poolVars, breakerVars, retryVars, cacheVars, extraVars>>
  /\ UNCHANGED <<component, impl, maxConcurrent, retryLimit, sharedBrowser, sem,
                 thrown, outcome, contextCount, activeJobs, stats, taskResults,
                 results, batchState, formatted>>

\* A catch branch that reports the task like a success.
SlotValueSwallowsFailure(im, i, error) ==
  IF im = "orchestrator"
    THEN OrchSuccess(Payload(UrlOf(i)))
    ELSE ResultOk(UrlOf(i), i, Payload(UrlOf(i)))

\* The slot value the callback produces for a task that ended with `error`
\* (NoError: it succeeded).
SlotValue(im, i, error) ==
  IF im = "orchestrator"
    THEN IF error = NoError THEN OrchSuccess(Payload(UrlOf(i))) ELSE OrchFailure(error)
    ELSE IF error = NoError
           THEN ResultOk(UrlOf(i), i, Payload(UrlOf(i)))
           ELSE ResultFail(error)

\* The task's processing has ended: the callback's try/catch/finally stores
\* the outcome, counts it and releases the semaphore, which resumes the first
\* waiter with the slot handed over.
Settle(i) ==
  /\ component = "batch"
  /\ batchState = "running"
  /\ pc[i] = "settle"
  /\ results' = StoreResult(results, i, SlotValue(impl, i, thrown[i]))
  /\ activeJobs' = activeJobs \ {i}
  /\ IF impl = "parallel"
       THEN /\ stats' = IF thrown[i] = NoError
                          THEN [stats EXCEPT !.completed = @ + 1]
                          ELSE [stats EXCEPT !.failed = @ + 1]
            /\ UNCHANGED taskResults
       ELSE /\ taskResults' =
                 IF thrown[i] = NoError
                   THEN [taskResults EXCEPT !.results = @ \cup {i}]
                   ELSE IF thrown[i].cls = "TypeError"
                          THEN taskResults
                          ELSE [taskResults EXCEPT !.errors = @ \cup {i}]
            /\ UNCHANGED stats
  /\ sem' = SemRelease(sem)
  /\ pc' = [t \in Tasks |->
              IF t = i
                THEN IF impl = "parallel" /\ i < NumTasks THEN "delay" ELSE "done"
                ELSE IF t = SemNext(sem) THEN "acquired" ELSE pc[t]]
  /\ UNCHANGED <<poolVars, breakerVars, retryVars, cacheVars, extraVars>>
  /\ attempt' = [attempt EXCEPT ![i] = 0]
  /\ UNCHANGED <<component, impl, maxConcurrent, retryLimit, sharedBrowser,
                 thrown, outcome, ctx, sharedContexts, contextCount, batchState,
                 formatted>>

\* ParallelScraper: the requestDelay after the release ends.
DelayEnd(i) ==
  /\ component = "batch"
  /\ batchState = "running"
  /\ pc[i] = "delay"
  /\ pc' = [pc EXCEPT ![i] = "done"]
  /\ UNCHANGED <<poolVars, breakerVars, retryVars, cacheVars, extraVars>>
  /\ UNCHANGED <<component, impl, maxConcurrent, retryLimit, sharedBrowser, sem,
                 attempt, thrown, outcome, ctx, sharedContexts, contextCount,
                 activeJobs, stats, taskResults, results, batchState, formatted>>

\* Promise.all(promises) resolves: processBatch returns its results.
ProcessBatchReturn ==
  /\ component = "batch"
  /\ batchState = "running"
  /\ \A i \in Tasks : pc[i] = "done"
  /\ batchState' = IF impl = "orchestrator" THEN "returned" ELSE "processed"
  /\ UNCHANGED <<poolVars, breakerVars, retryVars, cacheVars, extraVars>>
  /\ UNCHANGED <<component, impl, maxConcurrent, retryLimit, sharedBrowser, sem, pc,
                 attempt, thrown, outcome, ctx, sharedContexts, contextCount,
                 activeJobs, stats, taskResults, results, formatted>>

\* extractMultiple: formatResults(results), then cleanup() in the finally.
FormatAndCleanup ==
  /\ component = "batch"
  /\ impl = "parallel"
  /\ batchState = "processed"
  /\ IF FormatThrows(results)
       THEN /\ batchState' = "threw"
            /\ UNCHANGED formatted
       ELSE /\ batchState' = "returned"
            /\ formatted' = FormatResults(results, stats)
  /\ sharedContexts' = <<>>
  /\ UNCHANGED <<poolVars, breakerVars, retryVars, cacheVars, extraVars>>
  /\ UNCHANGED <<component, impl, maxConcurrent, retryLimit, sharedBrowser, sem, pc,
                 attempt, thrown, outcome, ctx, contextCount, activeJobs, stats,
                 taskResults, results>>

BatchNext ==
  \/ StartBatch
  \/ \E i \in Tasks : BeginTask(i)
  \/ \E i \in Tasks : AttemptEnd(i)
  \/ \E i \in Tasks : BackoffEnd(i)
  \/ \E i \in Tasks : Settle(i)
  \/ \E i \in Tasks : DelayEnd(i)
  \/ ProcessBatchReturn
  \/ FormatAndCleanup

\* extractMultiple is called again on the same ParallelScraper after its
\* earlier call ended: the instance keeps its semaphore and its stats, of
\* which only total (and the times) are assigned.
ExtractAgain ==
  /\ component = "batch"
  /\ impl = "parallel"
  /\ batchState \in {"returned", "threw"}
  /\ repeats < MaxRepeats
  /\ repeats' = repeats + 1
  /\ batchState' = "running"
  /\ sem' = MapAcquire(sem, maxConcurrent, NumTasks)
  /\ pc' = [i \in Tasks |->
              IF SemGranted(MapAcquire(sem, maxConcurrent, i - 1), maxConcurrent)
                THEN "acquired" ELSE "waiting"]
  /\ stats' = [stats EXCEPT !.total = NumTasks]
  /\ contextCount' = InitialContextCount(sharedBrowser, maxConcurrent)
  /\ sharedContexts' =
       [c \in 1..InitialContextCount(sharedBrowser, maxConcurrent) |-> c]
  /\ attempt' = [i \in Tasks |-> 0]
  /\ thrown' = [i \in Tasks |-> NoError]
  /\ outcome' = [i \in Tasks |-> NoError]
  /\ results' = [i \in Tasks |-> EmptySlot]
  /\ formatted' = NoFormatted
  /\ UNCHANGED <<component, impl, maxConcurrent, retryLimit, sharedBrowser, ctx,
                 activeJobs, taskResults>>
  /\ UNCHANGED <<poolVars, breakerVars, retryVars, cacheVars>>
  /\ UNCHANGED <<semVars, recoverVars, queueVars, raceVars>>

\* One ParallelScraper used for one extractMultiple call after the other.
RepeatNext == BatchNext \/ ExtractAgain

\* ------------------------------------------------------------ BrowserPool
Jobs == 1..NumJobs
Contexts == 1..PoolSize
\* A context object the pool never created.
ForeignContext == PoolSize + 1

\* PerformanceMonitor.startTimer(name): timers.set(name, ...)
StartTimer(ts, name) == ts \cup {name}
\* PerformanceMonitor.endTimer(name) throws when the timer is not there ...
EndTimerThrows(ts, name) == name \notin ts
\* ... and deletes it otherwise.
EndTimer(ts, name) == ts \ {name}

\* acquireContext: availableContexts.length === 0 throws.
AcquireFails(avail) == Len(avail) = 0
\* Reading the last context without removing it.
AcquireNoPop(avail) == avail

\* acquireContext: availableContexts.pop()
AcquirePop(avail) == SubSeq(avail, 1, Len(avail) - 1)
AcquiredContext(avail) == avail[Len(avail)]

\* releaseContext without its guard.
ReleaseGuardAlways(used, c) == TRUE

\* releaseContext: if (this.usedContexts.has(context))
ReleaseGuard(used, c) == c \in used

\* releaseContext after `await context.clearCookies()`: the push happens only
\* when clearCookies resolved.
ReleasePush(avail, c, cookiesCleared) ==
  IF cookiesCleared THEN Append(avail, c) ELSE avail

\* acquireContext(): one synchronous segment.
AcquireContext(j) ==
  /\ component = "pool"
  /\ jpc[j] = "idle"
  /\ IF AcquireFails(availableContexts)
       THEN /\ timers' = StartTimer(timers, "context_acquisition")
            /\ lastCall' = [op |-> "acquire", result |-> "threw", ctx |-> NoContext]
            /\ UNCHANGED <<availableContexts, usedContexts, jpc, jctx>>
       ELSE /\ availableContexts' = AcquirePop(availableContexts)
            /\ usedContexts' = usedContexts \cup {AcquiredContext(availableContexts)}
            /\ timers' = EndTimer(StartTimer(timers, "context_acquisition"),
                                  "context_acquisition")
            /\ jpc' = [jpc EXCEPT ![j] = "holding"]
            /\ jctx' = [jctx EXCEPT ![j] = AcquiredContext(availableContexts)]
            /\ lastCall' = [op |-> "acquire", result |-> "ok", ctx |-> NoContext]
  /\ UNCHANGED poolPhase
  /\ UNCHANGED <<component, batchVars, breakerVars, retryVars, cacheVars, extraVars>>

\* releaseContext(c) up to `await context.clearCookies()`, or to its end when
\* the guard finds c not leased.
ReleaseCall(j, c, op) ==
  IF ReleaseGuard(usedContexts, c)
    THEN /\ usedContexts' = usedContexts \ {c}
         /\ timers' = StartTimer(timers, "context_release")
         /\ jpc' = [jpc EXCEPT ![j] = "releasing"]
         /\ jctx' = [jctx EXCEPT ![j] = c]
         /\ UNCHANGED lastCall
    ELSE /\ timers' = EndTimer(StartTimer(timers, "context_release"), "context_release")
         /\ jpc' = [jpc EXCEPT ![j] = "idle"]
         /\ jctx' = [jctx EXCEPT ![j] = NoContext]
         /\ lastCall' = [op |-> op, result |-> "ignored",
                         ctx |-> IF op = "doubleRelease" THEN c ELSE NoContext]
         /\ UNCHANGED usedContexts

\* The holder of a lease releases it.
ReleaseStart(j) ==
  /\ component = "pool"
  /\ jpc[j] = "holding"
  /\ ReleaseCall(j, jctx[j], "release")
  /\ UNCHANGED <<availableContexts, poolPhase>>
  /\ UNCHANGED <<component, batchVars, breakerVars, retryVars, cacheVars, extraVars>>

\* A caller releases a handle that is not leased: one that is available, one
\* whose release is in progress or was lost, or one the pool never leased.
DoubleRelease(j, c) ==
  /\ component = "pool"
  /\ jpc[j] = "idle"
  /\ c \notin usedContexts
  /\ ReleaseCall(j, c, "doubleRelease")
  /\ UNCHANGED <<availableContexts, poolPhase>>
  /\ UNCHANGED <<component, batchVars, breakerVars, retryVars, cacheVars, extraVars>>

\* releaseContext resumes: clearCookies resolved (push, endTimer) or rejected.
ReleaseEnd(j) ==
  /\ component = "pool"
  /\ jpc[j] = "releasing"
  /\ \E cookiesCleared \in BOOLEAN :
       /\ availableContexts' = ReleasePush(availableContexts, jctx[j], cookiesCleared)
       /\ IF cookiesCleared /\ ~EndTimerThrows(timers, "context_release")
            THEN /\ timers' = EndTimer(timers, "context_release")
                 /\ lastCall' = [op |-> "release", result |-> "ok", ctx |-> NoContext]
            ELSE /\ UNCHANGED timers
                 /\ lastCall' = [op |-> "release", result |-> "threw", ctx |-> NoContext]
  /\ jpc' = [jpc EXCEPT ![j] = "idle"]
  /\ jctx' = [jctx EXCEPT ![j] = NoContext]
  /\ UNCHANGED <<usedContexts, poolPhase>>
  /\ UNCHANGED <<component, batchVars, breakerVars, retryVars, cacheVars, extraVars>>

\* cleanup() up to its first `await context.close()`.  The closes act on
\* the context and browser objects, not on the pool's collections.
CleanupStart ==
  /\ component = "pool"
  /\ poolPhase = "open"
  /\ poolPhase' = "closing"
  /\ timers' = StartTimer(timers, "pool_cleanup")
  /\ UNCHANGED <<availableContexts, usedContexts, jpc, jctx, lastCall>>
  /\ UNCHANGED <<component, batchVars, breakerVars, retryVars, cacheVars, extraVars>>

\* cleanup() after its last await: the collections are emptied.
CleanupEnd ==
  /\ component = "pool"
  /\ poolPhase = "closing"
  /\ poolPhase' = "closed"
  /\ availableContexts' = <<>>
  /\ usedContexts' = {}
  /\ timers' = EndTimer(timers, "pool_cleanup")
  /\ UNCHANGED <<jpc, jctx, lastCall>>
  /\ UNCHANGED <<component, batchVars, breakerVars, retryVars, cacheVars, extraVars>>

PoolNext ==
  \/ \E j \in Jobs : AcquireContext(j)
  \/ \E j \in Jobs : ReleaseStart(j)
  \/ \E j \in Jobs : \E c \in Contexts \cup {ForeignContext} : DoubleRelease(j, c)
  \/ \E j \in Jobs : ReleaseEnd(j)
  \/ CleanupStart
  \/ CleanupEnd

\* The pool after initialize().
PoolInit ==
  /\ availableContexts = [c \in 1..PoolSize |-> c]
  /\ usedContexts = {}
  /\ timers = {}
  /\ poolPhase = "open"
  /\ jpc = [j \in Jobs |-> "idle"]
  /\ jctx = [j \in Jobs |-> NoContext]
  /\ lastCall = [op |-> "none", result |-> "none", ctx |-> NoContext]

BatchInit ==
  /\ impl \in {"orchestrator", "parallel"}
  /\ maxConcurrent \in 0..MaxConcurrentBound
  /\ retryLimit \in 0..MaxRetryBound
  /\ sharedBrowser = (impl = "parallel")
  /\ sem = SemaphoreNew
  /\ pc = [i \in Tasks |-> "start"]
  /\ attempt = [i \in Tasks |-> 0]
  /\ thrown = [i \in Tasks |-> NoError]
  /\ outcome = [i \in Tasks |-> NoError]
  /\ ctx = [i \in Tasks |-> NoContext]
  /\ sharedContexts = <<>>
  /\ contextCount = 0
  /\ activeJobs = {}
  /\ stats = [total |-> 0, completed |-> 0, failed |-> 0]
  /\ taskResults = [results |-> {}, errors |-> {}]
  /\ results = [i \in Tasks |-> EmptySlot]
  /\ batchState = "idle"
  /\ formatted = NoFormatted

\* --------------------------------------------------------- CircuitBreaker
Callers == 1..NumCallers
\* `this.lastFailureTime = null`
NullTime == -1

\* `Date.now() - this.lastFailureTime > this.resetTimeout`
ResetTimeoutLapsed(t, lastFailure, timeout) == t - lastFailure > timeout

\* An onSuccess that leaves the failure count alone.
OnSuccessKeepsFailures(st, f, sc, retries) ==
  [failures |-> f,
   successCount |-> IF st = "HALF_OPEN" THEN sc + 1 ELSE sc,
   state |-> IF st = "HALF_OPEN" /\ sc + 1 >= retries THEN "CLOSED" ELSE st]

\* An onSuccess that closes the breaker on the first half-open success.
OnSuccessClosesAtOnce(st, f, sc, retries) ==
  [failures |-> 0,
   successCount |-> IF st = "HALF_OPEN" THEN sc + 1 ELSE sc,
   state |-> IF st = "HALF_OPEN" THEN "CLOSED" ELSE st]

\* onSuccess(): the fields it assigns.
OnSuccess(st, f, sc, retries) ==
  [failures |-> 0,
   successCount |-> IF st = "HALF_OPEN" THEN sc + 1 ELSE sc,
   state |-> IF st = "HALF_OPEN" /\ sc + 1 >= retries THEN "CLOSED" ELSE st]

\* An onFailure that never opens the breaker.
OnFailureNeverTrips(st, f, threshold, t) ==
  [failures |-> f + 1, lastFailureTime |-> t, state |-> st]

\* onFailure(): the fields it assigns.
OnFailure(st, f, threshold, t) ==
  [failures |-> f + 1,
   lastFailureTime |-> t,
   state |-> IF f + 1 >= threshold THEN "OPEN" ELSE st]

\* execute(fn, fallback) up to its first await.  An OPEN breaker whose reset
\* timeout has not lapsed throws, or calls the fallback when one was passed;
\* the call is over then.  Otherwise fn is invoked, in HALF_OPEN when the
\* breaker was OPEN.
Execute(c, hasFallback) ==
  /\ component = "breaker"
  /\ cpc[c] = "idle"
  /\ calls < MaxCalls
  /\ calls' = calls + 1
  /\ IF state = "OPEN" /\ ~ResetTimeoutLapsed(now, lastFailureTime, resetTimeout)
       THEN /\ verdict' = IF hasFallback THEN "fallback" ELSE "rejected"
            /\ UNCHANGED <<state, successCount, probes, cpc, admittedIn>>
       ELSE /\ verdict' = "invoked"
            /\ state' = IF state = "OPEN" THEN "HALF_OPEN" ELSE state
            /\ successCount' = IF state = "OPEN" THEN 0 ELSE successCount
            /\ probes' = IF state = "OPEN" THEN 0 ELSE probes
            /\ cpc' = [cpc EXCEPT ![c] = "running"]
            /\ admittedIn' =
                 [admittedIn EXCEPT ![c] = IF state = "OPEN" THEN "HALF_OPEN" ELSE state]
  /\ UNCHANGED <<failureThreshold, resetTimeout, halfOpenRetries, failures,
                 lastFailureTime, now, streak, openedAt>>
  /\ UNCHANGED <<component, batchVars, poolVars, retryVars, cacheVars, extraVars>>

\* `await fn()` ends: onSuccess() when it returned, onFailure() when it threw.
Complete(c, ok) ==
  /\ component = "breaker"
  /\ cpc[c] = "running"
  /\ cpc' = [cpc EXCEPT ![c] = "idle"]
  /\ admittedIn' = [admittedIn EXCEPT ![c] = "none"]
  /\ IF ok
       THEN LET s == OnSuccess(state, failures, successCount, halfOpenRetries) IN
            /\ state' = s.state
            /\ failures' = s.failures
            /\ successCount' = s.successCount
            /\ streak' = 0
            /\ probes' = IF state = "HALF_OPEN" THEN probes + 1 ELSE probes
            /\ UNCHANGED <<lastFailureTime, openedAt>>
       ELSE LET s == OnFailure(state, failures, failureThreshold, now) IN
            /\ state' = s.state
            /\ failures' = s.failures
            /\ lastFailureTime' = s.lastFailureTime
            /\ streak' = streak + 1
            /\ openedAt' = IF s.state = "OPEN" /\ state # "OPEN" THEN now ELSE openedAt
            /\ UNCHANGED <<successCount, probes>>
  /\ UNCHANGED <<failureThreshold, resetTimeout, halfOpenRetries, now, calls, verdict>>
  /\ UNCHANGED <<component, batchVars, poolVars, retryVars, cacheVars, extraVars>>

\* Time passes.
Tick ==
  /\ component = "breaker"
  /\ now < MaxTime
  /\ now' = now + 1
  /\ UNCHANGED <<failureThreshold, resetTimeout, halfOpenRetries, state, failures,
                 lastFailureTime, successCount, cpc, admittedIn, calls, verdict,
                 streak, openedAt, probes>>
  /\ UNCHANGED <<component, batchVars, poolVars, retryVars, cacheVars, extraVars>>

BreakerNext ==
  \/ \E c \in Callers : \E hasFallback \in BOOLEAN : Execute(c, hasFallback)
  \/ \E c \in Callers : \E ok \in BOOLEAN : Complete(c, ok)
  \/ Tick

\* new CircuitBreaker(options)
BreakerInit ==
  /\ failureThreshold \in 1..MaxThreshold
  /\ resetTimeout \in 1..MaxResetTimeout
  /\ halfOpenRetries \in 1..MaxHalfOpenRetries
  /\ state = "CLOSED"
  /\ failures = 0
  /\ lastFailureTime = NullTime
  /\ successCount = 0
  /\ now = 0
  /\ cpc = [c \in Callers |-> "idle"]
  /\ admittedIn = [c \in Callers |-> "none"]
  /\ calls = 0
  /\ verdict = "none"
  /\ streak = 0
  /\ openedAt = NullTime
  /\ probes = 0

\* ------------------------------------------------------------ retry loops
\* new RateLimitError(message, platform, retryAfter): the retry-after hint.
RetryAfterHint == 30
RateLimited ==
  [cls |-> "RateLimitError", message |-> "Rate limited", flag |-> FALSE,
   retryAfter |-> RetryAfterHint]
\* What BrowserPool.acquireContext throws when no context is available.
PoolExhausted ==
  [cls |-> "Error", message |-> "No available browser contexts", flag |-> FALSE]

\* What one invocation of the retried operation can end with, besides success.
RetryErrors == {NavigationTimeout, ExtractionFailed, RateLimited, PoolExhausted}

\* The values of backoff / options.retryDelay and of options.backoffMultiplier
\* (withRetry has the 2 in its code).
BaseDelays == {0, 100}
Multipliers(ex) == IF ex = "parallel" THEN {2} ELSE {2, 3}

\* A delay that does not grow with the attempt.
BackoffDelayConstant(base, multiplier, n) == base

\* `backoff * Math.pow(2, attempt - 1)` /
\* `retryDelay * Math.pow(backoffMultiplier, attempt - 1)`
BackoffDelay(base, multiplier, n) == base * multiplier ^ (n - 1)

\* The loop is entered.  With a limit of 0 it runs no attempt and
\* `throw lastError` throws undefined.
RetryStart ==
  /\ component = "retry"
  /\ rpc = "idle"
  /\ IF maxRetries = 0
       THEN /\ rpc' = "threw"
            /\ rthrown' = Undefined
            /\ UNCHANGED <<rattempt, invocations>>
       ELSE /\ rpc' = "calling"
            /\ rattempt' = 1
            /\ invocations' = Append(invocations, 1)
            /\ UNCHANGED rthrown
  /\ UNCHANGED <<executor, maxRetries, backoff, backoffMultiplier, attemptResults, waits>>
  /\ UNCHANGED <<component, batchVars, poolVars, breakerVars, cacheVars, extraVars>>

\* The awaited operation returns or throws.  The loop returns the value,
\* throws the error, or starts the backoff wait.
RetryAttemptEnd ==
  /\ component = "retry"
  /\ rpc = "calling"
  /\ \E o \in {OkOutcome} \cup RetryErrors :
       /\ attemptResults' = Append(attemptResults, o)
       /\ IF o = OkOutcome
            THEN /\ rpc' = "returned"
                 /\ UNCHANGED <<waits, rthrown>>
            ELSE IF RetriesAfter(executor, o, rattempt, maxRetries)
                   THEN /\ rpc' = "waiting"
                        /\ waits' =
                             Append(waits, BackoffDelay(backoff, backoffMultiplier, rattempt))
                        /\ UNCHANGED rthrown
                   ELSE /\ rpc' = "threw"
                        /\ rthrown' = o
                        /\ UNCHANGED waits
  /\ UNCHANGED <<executor, maxRetries, backoff, backoffMultiplier, rattempt, invocations>>
  /\ UNCHANGED <<component, batchVars, poolVars, breakerVars, cacheVars, extraVars>>

\* The wait ends: `attempt++` and the next invocation.
RetryWaitEnd ==
  /\ component = "retry"
  /\ rpc = "waiting"
  /\ rpc' = "calling"
  /\ rattempt' = rattempt + 1
  /\ invocations' = Append(invocations, rattempt + 1)
  /\ UNCHANGED <<executor, maxRetries, backoff, backoffMultiplier, attemptResults,
                 waits, rthrown>>
  /\ UNCHANGED <<component, batchVars, poolVars, breakerVars, cacheVars, extraVars>>

RetryNext ==
  \/ RetryStart
  \/ RetryAttemptEnd
  \/ RetryWaitEnd

\* A call of withRetry(fn, maxRetries, backoff) / executeWithRetry(task, taskId).
RetryInit ==
  /\ executor \in {"orchestrator", "parallel"}
  /\ maxRetries \in 0..MaxAttemptsBound
  /\ backoff \in BaseDelays
  /\ backoffMultiplier \in Multipliers(executor)
  /\ rpc = "idle"
  /\ rattempt = 0
  /\ invocations = <<>>
  /\ attemptResults = <<>>
  /\ waits = <<>>
  /\ rthrown = NoError

\* -------------------------------------------------------- LearningStorage
CacheTasks == 1..NumCacheTasks
\* The hostnames and content types the calls are made for.
Domains == {"a.com", "b.org"}
Categories == {"article", "video"}
Keys == {<<"a.com", "article">>, <<"a.com", "video">>, <<"b.org", "article">>}

\* Times are in ticks; JavaScript has them in milliseconds.
Day == TicksPerDay
\* this.cacheMaxAge = 6 * 30 * 24 * 60 * 60 * 1000
CacheMaxAge == 6 * 30 * Day

\* The times at which calls are made.  The behaviours over the ages of an
\* entry ("aging") visit both sides of each limit; those of one user ("solo")
\* and of concurrent users ("cache") have entries within and beyond the
\* maximum age.
Timeline ==
  CASE component = "aging" ->
         {0, 7 * Day, 7 * Day + 1, 30 * Day, 30 * Day + 1, 90 * Day, 90 * Day + 1,
          180 * Day, 180 * Day + 1}
    [] component = "solo" -> {0, 7 * Day, CacheMaxAge + 1}
    [] OTHER -> {0, CacheMaxAge + Day}
Solo == component \in {"aging", "solo"}
ActiveTasks == IF Solo THEN {1} ELSE CacheTasks
OpsLimit ==
  CASE component = "aging" -> MaxAgingOps
    [] component = "solo" -> MaxSoloOps
    [] OTHER -> MaxCacheOps

\* `data.domains[hostname]` of a hostname without entry; a lookup's null.
NoRecord == [absent |-> TRUE]
Absent == [found |-> FALSE]
\* A property that is undefined is the string "undefined"; an undefined
\* timing object is NoTiming.
NoTiming == [defined |-> FALSE]
\* { domains: {}, version: "1.0.0" }
EmptyData == [h \in Domains |-> NoRecord]
\* `data.domains[hostname] = {}`
BlankRecord ==
  [lastSuccess |-> 0, platform |-> "undefined", contentType |-> "undefined",
   strategy |-> "undefined",
   workingSelectors |-> [c \in Categories |-> "undefined"],
   successfulExtractors |-> "undefined",
   optimalTiming |-> NoTiming]

\* The extractionData a caller passes: everything given (as SmartScraper
\* does), other values, nothing given.
DataFull ==
  [platform |-> "web", selectors |-> "h1,.content", extractorTypes |-> "text,metadata",
   timing |-> [delay |-> 3000, timeout |-> 30000]]
DataOther ==
  [platform |-> "shop", selectors |-> ".product-title", extractorTypes |-> "structured",
   timing |-> [delay |-> 0, timeout |-> 60000]]
DataBare ==
  [platform |-> "undefined", selectors |-> "undefined", extractorTypes |-> "undefined",
   timing |-> NoTiming]
RecordInputs ==
  {[input |-> DataOther, strategy |-> "default"],
   [input |-> DataBare, strategy |-> "learned"]}

\* `value || fallback`, of a string and of a number
OrElse(value, fallback) == IF value = "undefined" THEN fallback ELSE value
OrElseNumber(value, fallback) == IF value = 0 THEN fallback ELSE value

\* In `seen`: no lookup yet.
Unseen == 100 + 1

\* A recordSuccess that leaves the strategy of an entry as it was.
StoreSuccessKeepsStrategy(d, hostname, contentType, x, strategy, t) ==
  LET old == IF d[hostname] = NoRecord THEN BlankRecord ELSE d[hostname] IN
  [d EXCEPT ![hostname] =
     [lastSuccess |-> t,
      platform |-> OrElse(x.platform, "unknown"),
      contentType |-> contentType,
      strategy |-> old.strategy,
      workingSelectors |->
        IF x.selectors # "undefined"
          THEN [old.workingSelectors EXCEPT ![contentType] = x.selectors]
          ELSE old.workingSelectors,
      successfulExtractors |->
        IF x.extractorTypes # "undefined"
          THEN x.extractorTypes ELSE old.successfulExtractors,
      optimalTiming |->
        IF x.timing # NoTiming
          THEN [delay |-> OrElseNumber(x.timing.delay, 3000),
                timeout |-> OrElseNumber(x.timing.timeout, 30000),
                lastUpdated |-> t]
          ELSE old.optimalTiming]]

\* recordSuccess between its load and its save: the entry it writes into
\* `data` at time t.
StoreSuccess(d, hostname, contentType, x, strategy, t) ==
  LET old == IF d[hostname] = NoRecord THEN BlankRecord ELSE d[hostname] IN
  [d EXCEPT ![hostname] =
     [lastSuccess |-> t,
      platform |-> OrElse(x.platform, "unknown"),
      contentType |-> contentType,
      strategy |-> strategy,
      workingSelectors |->
        IF x.selectors # "undefined"
          THEN [old.workingSelectors EXCEPT ![contentType] = x.selectors]
          ELSE old.workingSelectors,
      successfulExtractors |->
        IF x.extractorTypes # "undefined"
          THEN x.extractorTypes ELSE old.successfulExtractors,
      optimalTiming |->
        IF x.timing # NoTiming
          THEN [delay |-> OrElseNumber(x.timing.delay, 3000),
                timeout |-> OrElseNumber(x.timing.timeout, 30000),
                lastUpdated |-> t]
          ELSE old.optimalTiming]]

\* `now - lastSuccessTime > this.cacheMaxAge`
IsStale(domainData, t) == t - domainData.lastSuccess > CacheMaxAge

\* cleanupOldEntries(data) at time t: the data without its stale entries.
\* It saves the data when this removed an entry.
CleanupOldEntries(d, t) ==
  [h \in Domains |-> IF d[h] # NoRecord /\ IsStale(d[h], t) THEN NoRecord ELSE d[h]]

\* A bustCache that deletes every entry.
DeleteEveryEntry(d, hostname) == EmptyData

\* `delete data.domains[hostname]`
DeleteEntry(d, hostname) == [d EXCEPT ![hostname] = NoRecord]

\* A confidence whose brackets exclude their upper limit.
CalculateConfidenceExclusive(domainData, t) ==
  LET sinceSuccess == t - domainData.lastSuccess IN
  IF sinceSuccess < 7 * Day THEN 100
  ELSE IF sinceSuccess < 30 * Day THEN 80
  ELSE IF sinceSuccess < 90 * Day THEN 60
  ELSE 40

\* calculateConfidence(domainData) at time t, in percent.  daysSinceSuccess
\* is a fraction of days; `daysSinceSuccess <= 7` is compared here in ticks.
CalculateConfidence(domainData, t) ==
  LET sinceSuccess == t - domainData.lastSuccess IN
  IF sinceSuccess <= 7 * Day THEN 100
  ELSE IF sinceSuccess <= 30 * Day THEN 80
  ELSE IF sinceSuccess <= 90 * Day THEN 60
  ELSE 40

\* The object getLearnedPatterns returns for an entry.
LearnedPatterns(domainData, contentType, t) ==
  [selectors |-> domainData.workingSelectors[contentType],
   platform |-> domainData.platform,
   strategy |-> domainData.strategy,
   extractors |-> domainData.successfulExtractors,
   timing |-> domainData.optimalTiming,
   lastSuccess |-> domainData.lastSuccess,
   confidence |-> CalculateConfidence(domainData, t)]

\* What a call that ended without a value returned, and a call that threw.
Returned == [returned |-> TRUE]
Threw == [threw |-> TRUE]
NoReturn == [pending |-> TRUE]

\* Only loadLearningData has a try / catch.
CaughtOnlyInLoad(f) == f = "loadLearningData"

\* The methods whose body is a try / catch that swallows the error.
Caught(f) ==
  f \in {"loadLearningData", "recordSuccess", "getLearnedPatterns", "bustCache",
         "recordFailure"}

\* What a method's catch block returns.
CatchValue(f) == IF f = "getLearnedPatterns" THEN Absent ELSE Returned

\* The calls a user makes: the LearningStorage methods and
\* SmartScraper.extract, which passes all of its extraction data.
Calls ==
  {[op |-> "recordSuccess", domain |-> k[1], category |-> k[2],
    input |-> x.input, strategy |-> x.strategy] : k \in Keys, x \in RecordInputs}
  \cup {[op |-> o, domain |-> k[1], category |-> k[2],
         input |-> DataFull, strategy |-> "default"] :
          o \in {"getLearnedPatterns", "extract"}, k \in Keys}
  \cup {[op |-> "bustCache", domain |-> h, category |-> "article",
         input |-> DataFull, strategy |-> "default"] : h \in Domains}
\* The calls of a user who is by itself: the LearningStorage methods.
AgingCalls ==
  {c \in Calls :
     /\ c.op # "extract"
     /\ (c.op = "recordSuccess" /\ c.input = DataBare) =>
          c.domain = "a.com" /\ c.category = "article"}
\* The calls of the concurrent users.
SharedCalls ==
  {c \in Calls :
     /\ c.op = "recordSuccess" => c.input = DataOther /\ c.category = "article"
     /\ c.op = "getLearnedPatterns" => c.domain = "a.com"
     /\ c.op \in {"extract", "bustCache"} =>
          c.domain = "a.com" /\ c.category = "article"}
NoCall ==
  [op |-> "none", domain |-> "a.com", category |-> "article",
   input |-> DataFull, strategy |-> "default"]

\* One user's position and working data.
Local(t) ==
  [lpc |-> lpc[t], fn |-> fn[t], nested |-> nested[t], xstage |-> xstage[t],
   ldata |-> ldata[t], ret |-> ret[t], call |-> call[t],
   learnedFailed |-> learnedFailed[t]]

\* The user's call has ended with value: its working data are gone.
Ended(l, value) ==
  [l EXCEPT !.lpc = "idle", !.fn = "none", !.nested = FALSE, !.xstage = "none",
            !.ldata = EmptyData, !.ret = value]

\* SmartScraper.extract after the storage call of its stage returned.
ExtractAfter(l, value) ==
  CASE l.xstage = "lookup" ->
         \* tryLearnedExtraction: `!learnedPatterns || confidence < 0.4`
         IF value = Absent \/ value.confidence < 40
           THEN [l EXCEPT !.xstage = "default", !.lpc = "extracting"]
           ELSE [l EXCEPT !.xstage = "learned", !.lpc = "extracting"]
    [] l.xstage = "failure" ->
         [l EXCEPT !.xstage = "default", !.lpc = "extracting"]
    [] OTHER -> Ended(l, Returned)

\* The LearningStorage method the user called returns value (or throws, when
\* value is Threw).
Finish(l, value) ==
  IF l.call.op = "extract" /\ value # Threw
    THEN ExtractAfter(l, value)
    ELSE Ended(l, value)

\* The method the user is in returns value; the bustCache that
\* getLearnedPatterns awaits for a stale entry returns into it, and it
\* returns null.
Returns(l, value) ==
  IF l.nested
    THEN Finish([l EXCEPT !.fn = "getLearnedPatterns", !.nested = FALSE], Absent)
    ELSE Finish(l, value)

\* An error is thrown in the body of the method the user is in.
RaiseInBody(l) ==
  IF Caught(l.fn) THEN Returns(l, CatchValue(l.fn))
  ELSE IF l.nested /\ Caught("getLearnedPatterns")
    THEN Finish([l EXCEPT !.fn = "getLearnedPatterns", !.nested = FALSE], Absent)
  ELSE IF l.xstage = "failure" /\ Caught("recordFailure")
    THEN Finish(l, Returned)
  ELSE Finish([l EXCEPT !.nested = FALSE], Threw)

\* The method continues with the data d that loadLearningData returned, at
\* time t.
AfterLoad(l, d, t) ==
  LET h == l.call.domain IN
  CASE l.fn = "recordSuccess" ->
         [l EXCEPT !.ldata = StoreSuccess(d, h, l.call.category, l.call.input,
                                         l.call.strategy, t),
                   !.lpc = "save"]
    [] l.fn = "bustCache" ->
         IF d[h] # NoRecord
           THEN [l EXCEPT !.ldata = DeleteEntry(d, h), !.lpc = "save"]
           ELSE Returns(l, Returned)
    [] OTHER ->
         IF d[h] = NoRecord THEN Returns(l, Absent)
         ELSE IF IsStale(d[h], t)
           THEN [l EXCEPT !.fn = "bustCache", !.nested = TRUE, !.lpc = "read"]
         ELSE Returns(l, LearnedPatterns(d[h], l.call.category, t))

\* An error is thrown inside loadLearningData, whose catch returns the
\* empty structure.
RaiseInLoad(l, t) ==
  IF Caught("loadLearningData") THEN AfterLoad(l, EmptyData, t) ELSE RaiseInBody(l)

\* A step of user t that takes it to r; fault: a read or write failed.
CacheStep(t, r, fault) ==
  /\ lpc' = [lpc EXCEPT ![t] = r.lpc]
  /\ fn' = [fn EXCEPT ![t] = r.fn]
  /\ nested' = [nested EXCEPT ![t] = r.nested]
  /\ xstage' = [xstage EXCEPT ![t] = r.xstage]
  /\ ldata' = [ldata EXCEPT ![t] = r.ldata]
  /\ ret' = [ret EXCEPT ![t] = r.ret]
  /\ call' = [call EXCEPT ![t] = r.call]
  /\ learnedFailed' = [learnedFailed EXCEPT ![t] = r.learnedFailed]
  /\ faults' = IF fault THEN faults + 1 ELSE faults
  /\ quiet' = [u \in CacheTasks |-> Solo /\ u = t /\ quiet[t] /\ ~fault]
  /\ everRecorded' =
       IF r.fn = "recordSuccess" /\ fn[t] # "recordSuccess"
         THEN everRecorded \cup {<<r.call.domain, r.call.category>>}
         ELSE everRecorded
  /\ seen' =
       IF r.lpc = "idle" /\ call[t].op = "getLearnedPatterns"
         THEN [seen EXCEPT ![call[t].domain] =
                 IF r.ret = Absent \/ r.ret = Threw THEN 0 ELSE r.ret.confidence]
         ELSE IF r.fn = "recordSuccess" \/ fn[t] = "recordSuccess"
           THEN [seen EXCEPT ![call[t].domain] = Unseen]
         ELSE seen
  /\ UNCHANGED <<component, clock, cacheOps, before, prev>>
  /\ UNCHANGED <<batchVars, poolVars, breakerVars, retryVars, extraVars>>

\* A user calls a method: it enters loadLearningData and awaits readFile.
StartCall(t, c) ==
  /\ component \in {"cache", "solo", "aging"}
  /\ t \in ActiveTasks
  /\ lpc[t] = "idle"
  /\ cacheOps < OpsLimit
  /\ cacheOps' = cacheOps + 1
  /\ call' = [call EXCEPT ![t] = c]
  /\ lpc' = [lpc EXCEPT ![t] = "read"]
  /\ fn' = [fn EXCEPT ![t] =
              IF c.op = "extract" THEN "getLearnedPatterns" ELSE c.op]
  /\ nested' = [nested EXCEPT ![t] = FALSE]
  /\ xstage' = [xstage EXCEPT ![t] = IF c.op = "extract" THEN "lookup" ELSE "none"]
  /\ ldata' = [ldata EXCEPT ![t] = EmptyData]
  /\ ret' = [ret EXCEPT ![t] = NoReturn]
  /\ learnedFailed' = [learnedFailed EXCEPT ![t] = "no"]
  /\ before' = IF Solo THEN [before EXCEPT ![t] = file] ELSE before
  /\ prev' = IF Solo THEN [prev EXCEPT ![t] = [call |-> call[t], before |-> before[t]]]
                    ELSE prev
  /\ quiet' = [u \in CacheTasks |->
                 Solo /\ u = t /\ (c.op = "getLearnedPatterns" => quiet[t])]
  /\ everRecorded' =
       IF c.op = "recordSuccess"
         THEN everRecorded \cup {<<c.domain, c.category>>} ELSE everRecorded
  /\ seen' = IF c.op = "recordSuccess" THEN [seen EXCEPT ![c.domain] = Unseen] ELSE seen
  /\ UNCHANGED <<component, clock, file, faults>>
  /\ UNCHANGED <<batchVars, poolVars, breakerVars, retryVars, extraVars>>

\* loadLearningData: readFile and JSON.parse end (a missing file has no
\* entries, as the catch's structure has); cleanupOldEntries runs and awaits
\* saveLearningData when it removed an entry.
ReadDone(t, ok) ==
  /\ lpc[t] = "read"
  /\ ok \/ faults < MaxFaults
  /\ file' = file
  /\ IF ~ok THEN CacheStep(t, RaiseInLoad(Local(t), clock), TRUE)
     ELSE IF CleanupOldEntries(file, clock) # file
       THEN CacheStep(t, [Local(t) EXCEPT !.ldata = CleanupOldEntries(file, clock),
                                          !.lpc = "purge"], FALSE)
     ELSE CacheStep(t, AfterLoad(Local(t), file, clock), FALSE)

\* The save of cleanupOldEntries ends; its failure is thrown into
\* loadLearningData's try.
PurgeDone(t, ok) ==
  /\ lpc[t] = "purge"
  /\ ok \/ faults < MaxFaults
  /\ file' = IF ok THEN ldata[t] ELSE file
  /\ IF ok THEN CacheStep(t, AfterLoad(Local(t), ldata[t], clock), FALSE)
     ELSE CacheStep(t, RaiseInLoad(Local(t), clock), TRUE)

\* The save of recordSuccess or bustCache ends.
SaveDone(t, ok) ==
  /\ lpc[t] = "save"
  /\ ok \/ faults < MaxFaults
  /\ file' = IF ok THEN ldata[t] ELSE file
  /\ IF ok THEN CacheStep(t, Returns(Local(t), Returned), FALSE)
     ELSE CacheStep(t, RaiseInBody(Local(t)), TRUE)

ExtractionOutcomes == {"valid", "invalid", "null", "threw"}

\* SmartScraper.extract: extractAllData ends, with learned patterns (inside
\* tryLearnedExtraction) or without.
ExtractionDone(t, x) ==
  /\ lpc[t] = "extracting"
  /\ file' = file
  /\ LET l == Local(t) IN
     IF xstage[t] = "learned"
       THEN CASE x = "threw" ->
                   \* catch: recordFailure(hostname, contentType, error.message)
                   CacheStep(t, [l EXCEPT !.learnedFailed = x, !.xstage = "failure",
                                          !.fn = "bustCache", !.lpc = "read"], FALSE)
              [] x = "null" ->
                   \* `if (!extractedData)`: extract with default strategy
                   CacheStep(t, [l EXCEPT !.learnedFailed = x, !.xstage = "default"],
                             FALSE)
              [] x = "invalid" ->
                   CacheStep(t, Ended([l EXCEPT !.learnedFailed = x], Returned), FALSE)
              [] OTHER ->
                   CacheStep(t, [l EXCEPT !.call.strategy = "learned",
                                          !.xstage = "success",
                                          !.fn = "recordSuccess", !.lpc = "read"], FALSE)
       ELSE CASE x = "threw" ->
                   CacheStep(t, Ended(l, Threw), FALSE)
              [] x = "valid" ->
                   CacheStep(t, [l EXCEPT !.call.strategy = "default",
                                          !.xstage = "success",
                                          !.fn = "recordSuccess", !.lpc = "read"], FALSE)
              [] OTHER ->
                   CacheStep(t, Ended(l, Returned), FALSE)

\* Time passes.
Advance(t) ==
  /\ component \in {"cache", "solo", "aging"}
  /\ t \in Timeline
  /\ t > clock
  /\ clock' = t
  /\ quiet' = [u \in CacheTasks |-> FALSE]
  /\ UNCHANGED <<component, file, call, lpc, fn, nested, xstage, ldata, ret,
                 learnedFailed, cacheOps, faults, before, prev, everRecorded, seen>>
  /\ UNCHANGED <<batchVars, poolVars, breakerVars, retryVars, extraVars>>

AgingNext ==
  \/ \E c \in AgingCalls : StartCall(1, c)
  \/ \E ok \in BOOLEAN : ReadDone(1, ok)
  \/ \E ok \in BOOLEAN : PurgeDone(1, ok)
  \/ \E ok \in BOOLEAN : SaveDone(1, ok)
  \/ \E t \in Timeline : Advance(t)

CacheNext ==
  \/ \E t \in CacheTasks, c \in SharedCalls : StartCall(t, c)
  \/ \E t \in CacheTasks, ok \in BOOLEAN : ReadDone(t, ok)
  \/ \E t \in CacheTasks, ok \in BOOLEAN : PurgeDone(t, ok)
  \/ \E t \in CacheTasks, ok \in BOOLEAN : SaveDone(t, ok)
  \/ \E t \in CacheTasks, x \in ExtractionOutcomes : ExtractionDone(t, x)
  \/ \E t \in Timeline : Advance(t)

\* The file at the start: none, or one with an entry written at time 0.
InitialFiles ==
  {EmptyData,
   StoreSuccess(EmptyData, "a.com", "article", DataFull, "default", 0)}

CacheInit ==
  /\ clock = 0
  /\ file \in InitialFiles
  /\ call = [t \in CacheTasks |-> NoCall]
  /\ lpc = [t \in CacheTasks |-> "idle"]
  /\ fn = [t \in CacheTasks |-> "none"]
  /\ nested = [t \in CacheTasks |-> FALSE]
  /\ xstage = [t \in CacheTasks |-> "none"]
  /\ ldata = [t \in CacheTasks |-> EmptyData]
  /\ ret = [t \in CacheTasks |-> NoReturn]
  /\ learnedFailed = [t \in CacheTasks |-> "no"]
  /\ cacheOps = 0
  /\ faults = 0
  /\ quiet = [t \in CacheTasks |-> FALSE]
  /\ before = [t \in CacheTasks |-> EmptyData]
  /\ prev = [t \in CacheTasks |-> [call |-> NoCall, before |-> EmptyData]]
  /\ everRecorded = {k \in Keys : file[k[1]] # NoRecord /\ k[2] = "article"}
  /\ seen = [h \in Domains |-> Unseen]

\* ------------------------------------------------- Semaphore by itself
SemUsers == 1..NumSemUsers

\* A user calls acquire(): it takes a slot (the promise of the async function
\* is resolved, the caller resumes in a later microtask) or its resolver joins
\* the queue.
UserAcquire(u) ==
  /\ component = "semaphore"
  /\ spc[u] = "idle"
  /\ issued < MaxSemAcquires
  /\ ssem' = SemAcquire(ssem, smax, u)
  /\ spc' = [spc EXCEPT ![u] = IF SemGranted(ssem, smax) THEN "granted" ELSE "waiting"]
  /\ ticket' = [ticket EXCEPT ![u] = issued + 1]
  /\ issued' = issued + 1
  /\ UNCHANGED <<smax, stamp>>
  /\ UNCHANGED <<component, batchVars, poolVars, breakerVars, retryVars, cacheVars>>
  /\ UNCHANGED <<recoverVars, queueVars, repeats, raceVars>>

\* The caller of acquire() resumes after its await.
UserResume(u) ==
  /\ component = "semaphore"
  /\ spc[u] \in {"granted", "woken"}
  /\ spc' = [spc EXCEPT ![u] = "holding"]
  /\ UNCHANGED <<ssem, smax, ticket, stamp, issued>>
  /\ UNCHANGED <<component, batchVars, poolVars, breakerVars, retryVars, cacheVars>>
  /\ UNCHANGED <<recoverVars, queueVars, repeats, raceVars>>

\* A user that holds a slot calls release(): the first waiter's promise is
\* resolved.
UserRelease(u) ==
  /\ component = "semaphore"
  /\ spc[u] = "holding"
  /\ ssem' = SemRelease(ssem)
  /\ spc' = [v \in SemUsers |->
               IF v = u THEN "idle"
               ELSE IF v = SemNext(ssem) THEN "woken"
               ELSE spc[v]]
  /\ stamp' = [v \in SemUsers |-> IF v = SemNext(ssem) THEN issued ELSE stamp[v]]
  /\ UNCHANGED <<smax, ticket, issued>>
  /\ UNCHANGED <<component, batchVars, poolVars, breakerVars, retryVars, cacheVars>>
  /\ UNCHANGED <<recoverVars, queueVars, repeats, raceVars>>

SemaphoreNext ==
  \/ \E u \in SemUsers : UserAcquire(u)
  \/ \E u \in SemUsers : UserResume(u)
  \/ \E u \in SemUsers : UserRelease(u)

SemaphoreInit ==
  /\ ssem = SemaphoreNew
  /\ smax \in 1..MaxConcurrentBound
  /\ spc = [u \in SemUsers |-> "idle"]
  /\ ticket = [u \in SemUsers |-> 0]
  /\ stamp = [u \in SemUsers |-> 0]
  /\ issued = 0

\* ------------------------------------------------------ ErrorRecovery
\* The error classes of the library, and the class Error itself.
ErrorClasses ==
  {"NavigationError", "ExtractionError", "PlatformError", "LearningError",
   "DetectionError", "RateLimitError", "ValidationError", "Error"}

ContextKinds == {"none", "empty", "full"}

\* initializeStrategies: the strategies Map, keyed by error class.
RegisteredStrategies(cls) ==
  CASE cls = "NavigationError" ->
         <<"retryWithIncreasedTimeout", "retryWithDifferentWaitCondition",
           "retryWithPageReload">>
    [] cls = "ExtractionError" ->
         <<"clearLearningCache", "tryAlternativeSelectors",
           "fallbackToGenericExtraction">>
    [] cls = "DetectionError" ->
         <<"rotateUserAgent", "addHumanLikeDelays", "enableStealthMode">>
    [] cls = "RateLimitError" ->
         <<"waitForRateLimitReset", "reduceRequestFrequency",
           "switchToAuthenticatedMode">>
    [] OTHER -> <<>>

\* `if (!strategies)`: strategies.get(error.constructor) found nothing.
NoStrategies(cls) == RegisteredStrategies(cls) = <<>>

\* What a strategy can end in: it returns { success: true, ... }
\* ("success"), returns { success: false } ("failure") or throws ("throws":
\* the TypeError of reading a property of an undefined context).
StrategyOutcomes(name, kind) ==
  CASE name \in {"addHumanLikeDelays", "enableStealthMode", "waitForRateLimitReset"} ->
         {"success"}
    [] name = "switchToAuthenticatedMode" -> {"failure"}
    [] name = "reduceRequestFrequency" ->
         IF kind = "none" THEN {"throws"} ELSE {"success"}
    [] OTHER ->
         IF kind = "none" THEN {"throws"}
         ELSE IF kind = "empty" THEN {"failure"}
         ELSE {"success", "failure"}

\* A loop that goes on to the next strategy whatever the strategy ended in.
ReturnsNever(ended) == FALSE

\* `if (result.success) return result`
ReturnsResult(ended) == ended = "success"

NotRecovered == [pending |-> TRUE]
NoStrategyAvailable ==
  [success |-> FALSE, message |-> "No recovery strategy available", strategy |-> "none"]
StrategiesExhausted ==
  [success |-> FALSE, message |-> "All recovery strategies exhausted", strategy |-> "none"]
StrategyResult(name) == [success |-> TRUE, message |-> "", strategy |-> name]

\* recover(error, context) up to its first await, or to its return when no
\* strategy is registered for the error's class.
RecoverStart(cls, kind) ==
  /\ component = "recover"
  /\ recpc \in {"idle", "returned"}
  /\ recoverCalls < MaxRecoverCalls
  /\ recoverCalls' = recoverCalls + 1
  /\ errClass' = cls
  /\ contextKind' = kind
  /\ tried' = <<>>
  /\ IF NoStrategies(cls)
       THEN /\ recpc' = "returned"
            /\ strategyIndex' = 0
            /\ recovered' = NoStrategyAvailable
       ELSE /\ recpc' = "awaiting"
            /\ strategyIndex' = 1
            /\ recovered' = NotRecovered
  /\ UNCHANGED <<component, batchVars, poolVars, breakerVars, retryVars, cacheVars>>
  /\ UNCHANGED <<semVars, queueVars, repeats, raceVars>>

\* The awaited strategy ends: recover returns its result, or goes on to the
\* next strategy, or returns after the last one.
StrategyEnds(o) ==
  /\ component = "recover"
  /\ recpc = "awaiting"
  /\ o \in StrategyOutcomes(RegisteredStrategies(errClass)[strategyIndex], contextKind)
  /\ tried' = Append(tried, [strategy |-> RegisteredStrategies(errClass)[strategyIndex],
                              outcome |-> o])
  /\ IF ReturnsResult(o)
       THEN /\ recpc' = "returned"
            /\ recovered' = StrategyResult(RegisteredStrategies(errClass)[strategyIndex])
            /\ UNCHANGED strategyIndex
       ELSE IF strategyIndex < Len(RegisteredStrategies(errClass))
         THEN /\ strategyIndex' = strategyIndex + 1
              /\ UNCHANGED <<recpc, recovered>>
         ELSE /\ recpc' = "returned"
              /\ recovered' = StrategiesExhausted
              /\ UNCHANGED strategyIndex
  /\ UNCHANGED <<errClass, contextKind, recoverCalls>>
  /\ UNCHANGED <<component, batchVars, poolVars, breakerVars, retryVars, cacheVars>>
  /\ UNCHANGED <<semVars, queueVars, repeats, raceVars>>

RecoverNext ==
  \/ \E cls \in ErrorClasses, kind \in ContextKinds : RecoverStart(cls, kind)
  \/ \E o \in {"success", "failure", "throws"} : StrategyEnds(o)

RecoverInit ==
  /\ recpc = "idle"
  /\ errClass = "Error"
  /\ contextKind = "none"
  /\ strategyIndex = 0
  /\ tried = <<>>
  /\ recovered = NotRecovered
  /\ recoverCalls = 0

\* ------------------------------------------------ TaskOrchestrator queue
\* generateTaskId: an id that was not made before.
GenerateTaskId(n) == n + 1

\* A processQueue that leaves the queue as it is.
QueueKept(q) == q

\* processQueue: `this.queue = []`
QueueTaken(q) == <<>>

\* removeFromQueue: findIndex and splice.
QueueWithout(q, id) == SelectSeq(q, LAMBDA x : x # id)

\* getTaskStatus(taskId).status
GetTaskStatus(id) ==
  IF id \in qactive THEN "running"
  ELSE IF id \in qresults THEN "completed"
  ELSE IF id \in qerrors THEN "failed"
  ELSE IF id \in Range(queue) THEN "queued"
  ELSE "not_found"

\* addToQueue(task)
AddToQueue ==
  /\ component = "queue"
  /\ Cardinality(issuedIds) < MaxAdds
  /\ generated' = GenerateTaskId(generated)
  /\ queue' = Append(queue, GenerateTaskId(generated))
  /\ issuedIds' = issuedIds \cup {GenerateTaskId(generated)}
  /\ lateIds' = IF qstate = "running"
                  THEN lateIds \cup {GenerateTaskId(generated)} ELSE lateIds
  /\ UNCHANGED <<qmax, qactive, qresults, qerrors, qstate, qtasks, qsem, qpc, qid,
                 removedIds, takenIds, started, runs>>
  /\ UNCHANGED <<component, batchVars, poolVars, breakerVars, retryVars, cacheVars>>
  /\ UNCHANGED <<semVars, recoverVars, repeats, raceVars>>

\* removeFromQueue(taskId) for an id addToQueue returned; it changes nothing
\* when the id is not in the queue.
RemoveFromQueue(id) ==
  /\ component = "queue"
  /\ id \in issuedIds
  /\ id \in Range(queue)
  /\ queue' = QueueWithout(queue, id)
  /\ removedIds' = removedIds \cup {id}
  /\ UNCHANGED <<generated, qmax, qactive, qresults, qerrors, qstate, qtasks, qsem,
                 qpc, qid, issuedIds, takenIds, lateIds, started, runs>>
  /\ UNCHANGED <<component, batchVars, poolVars, breakerVars, retryVars, cacheVars>>
  /\ UNCHANGED <<semVars, recoverVars, repeats, raceVars>>

\* processQueue() up to its await: an empty queue returns []; otherwise the
\* queue is copied and emptied and processBatch runs every callback up to
\* its acquire.
ProcessQueue ==
  /\ component = "queue"
  /\ qstate # "running"
  /\ runs < MaxRuns
  /\ runs' = runs + 1
  /\ IF Len(queue) = 0
       THEN /\ qstate' = "returned"
            /\ qtasks' = <<>>
            /\ qsem' = SemaphoreNew
            /\ qpc' = <<>>
            /\ qid' = <<>>
            /\ UNCHANGED <<queue, takenIds>>
       ELSE /\ qstate' = "running"
            /\ qtasks' = queue
            /\ queue' = QueueTaken(queue)
            /\ takenIds' = takenIds \cup Range(queue)
            /\ qsem' = MapAcquire(SemaphoreNew, qmax, Len(queue))
            /\ qpc' = [k \in 1..Len(queue) |->
                         IF SemGranted(MapAcquire(SemaphoreNew, qmax, k - 1), qmax)
                           THEN "acquired" ELSE "waiting"]
            /\ qid' = [k \in 1..Len(queue) |-> 0]
  /\ lateIds' = {}
  /\ UNCHANGED <<generated, qmax, qactive, qresults, qerrors, issuedIds, removedIds,
                 started>>
  /\ UNCHANGED <<component, batchVars, poolVars, breakerVars, retryVars, cacheVars>>
  /\ UNCHANGED <<semVars, recoverVars, repeats, raceVars>>

\* A callback resumes from acquire: processTask generates its taskId and
\* runs through executeWithRetry and executeTask into runTask, which enters
\* the id in activeJobs.
QueueTaskStart(k) ==
  /\ component = "queue"
  /\ qstate = "running"
  /\ k \in DOMAIN qpc
  /\ qpc[k] = "acquired"
  /\ generated' = GenerateTaskId(generated)
  /\ qid' = [qid EXCEPT ![k] = GenerateTaskId(generated)]
  /\ qactive' = qactive \cup {GenerateTaskId(generated)}
  /\ qpc' = [qpc EXCEPT ![k] = "running"]
  /\ started' = Append(started, qtasks[k])
  /\ UNCHANGED <<queue, qmax, qresults, qerrors, qstate, qtasks, qsem, issuedIds,
                 removedIds, takenIds, lateIds, runs>>
  /\ UNCHANGED <<component, batchVars, poolVars, breakerVars, retryVars, cacheVars>>
  /\ UNCHANGED <<semVars, recoverVars, repeats, raceVars>>

\* executeWithRetry ends (its attempts enter the same id in activeJobs
\* again): processTask stores the result or the error under its taskId and
\* deletes the id from activeJobs; the callback releases its slot.
QueueTaskEnd(k, ok) ==
  /\ component = "queue"
  /\ qstate = "running"
  /\ k \in DOMAIN qpc
  /\ qpc[k] = "running"
  /\ qresults' = IF ok THEN qresults \cup {qid[k]} ELSE qresults
  /\ qerrors' = IF ok THEN qerrors ELSE qerrors \cup {qid[k]}
  /\ qactive' = qactive \ {qid[k]}
  /\ qsem' = SemRelease(qsem)
  /\ qpc' = [j \in DOMAIN qpc |->
               IF j = k THEN "done"
               ELSE IF j = SemNext(qsem) THEN "acquired"
               ELSE qpc[j]]
  /\ UNCHANGED <<queue, generated, qmax, qstate, qtasks, qid, issuedIds, removedIds,
                 takenIds, lateIds, started, runs>>
  /\ UNCHANGED <<component, batchVars, poolVars, breakerVars, retryVars, cacheVars>>
  /\ UNCHANGED <<semVars, recoverVars, repeats, raceVars>>

\* Promise.all resolves: processBatch and processQueue return.
ProcessQueueReturn ==
  /\ component = "queue"
  /\ qstate = "running"
  /\ \A k \in DOMAIN qpc : qpc[k] = "done"
  /\ qstate' = "returned"
  /\ UNCHANGED <<queue, generated, qmax, qactive, qresults, qerrors, qtasks, qsem,
                 qpc, qid, issuedIds, removedIds, takenIds, lateIds, started, runs>>
  /\ UNCHANGED <<component, batchVars, poolVars, breakerVars, retryVars, cacheVars>>
  /\ UNCHANGED <<semVars, recoverVars, repeats, raceVars>>

QueueNext ==
  \/ AddToQueue
  \/ \E id \in issuedIds : RemoveFromQueue(id)
  \/ ProcessQueue
  \/ \E k \in 1..MaxAdds : QueueTaskStart(k)
  \/ \E k \in 1..MaxAdds, ok \in BOOLEAN : QueueTaskEnd(k, ok)
  \/ ProcessQueueReturn

QueueInit ==
  /\ queue = <<>>
  /\ generated = 0
  /\ qmax \in 1..MaxConcurrentBound
  /\ qactive = {} /\ qresults = {} /\ qerrors = {}
  /\ qstate = "idle"
  /\ qtasks = <<>>
  /\ qsem = SemaphoreNew
  /\ qpc = <<>>
  /\ qid = <<>>
  /\ issuedIds = {} /\ removedIds = {} /\ takenIds = {} /\ lateIds = {}
  /\ started = <<>>
  /\ runs = 0

\* --------------------------------------- TaskOrchestrator task timeout
RaceTasks == 1..NumRaceTasks

\* The runTask executions in flight: those the retry loops await and those
\* abandoned by a timeout that have not settled.
RECURSIVE AbandonedUpTo(_)
AbandonedUpTo(n) == IF n = 0 THEN 0 ELSE abandoned[n] + AbandonedUpTo(n - 1)
RunTasksInFlight ==
  Cardinality({i \in RaceTasks : tpc[i] = "racing"}) + AbandonedUpTo(NumRaceTasks)

\* processBatch(tasks) up to the point where every callback is suspended in
\* its acquire.
RaceStartBatch ==
  /\ component = "race"
  /\ tstate = "idle"
  /\ tstate' = "running"
  /\ tsem' = MapAcquire(SemaphoreNew, tmax, NumRaceTasks)
  /\ tpc' = [i \in RaceTasks |->
               IF SemGranted(MapAcquire(SemaphoreNew, tmax, i - 1), tmax)
                 THEN "acquired" ELSE "waiting"]
  /\ UNCHANGED <<tmax, tretries, tattempt, abandoned>>
  /\ UNCHANGED <<component, batchVars, poolVars, breakerVars, retryVars, cacheVars>>
  /\ UNCHANGED <<semVars, recoverVars, queueVars, repeats>>

\* The callback resumes from acquire: processTask, executeWithRetry and
\* executeTask start the first runTask and race it with the timeout.
RaceBeginTask(i) ==
  /\ component = "race"
  /\ tpc[i] = "acquired"
  /\ tpc' = [tpc EXCEPT ![i] = "racing"]
  /\ tattempt' = [tattempt EXCEPT ![i] = 1]
  /\ UNCHANGED <<tmax, tretries, tsem, tstate, abandoned>>
  /\ UNCHANGED <<component, batchVars, poolVars, breakerVars, retryVars, cacheVars>>
  /\ UNCHANGED <<semVars, recoverVars, queueVars, repeats>>

\* The attempt of task i has ended and is not retried, or succeeded: the
\* callback's finally releases the slot, which goes to the first waiter.
RaceTaskDone(i) ==
  /\ tsem' = SemRelease(tsem)
  /\ tpc' = [j \in RaceTasks |->
               IF j = i THEN "done"
               ELSE IF j = SemNext(tsem) THEN "acquired"
               ELSE tpc[j]]

\* What follows a failed attempt: the backoff delay, or the end of the task.
RaceAttemptFailed(i) ==
  IF tattempt[i] < tretries
    THEN /\ tpc' = [tpc EXCEPT ![i] = "backoff"]
         /\ UNCHANGED tsem
    ELSE RaceTaskDone(i)

\* The runTask execution the loop awaits settles before the timeout.
RaceExecutionEnds(i, ok) ==
  /\ component = "race"
  /\ tpc[i] = "racing"
  /\ IF ok THEN RaceTaskDone(i) ELSE RaceAttemptFailed(i)
  /\ UNCHANGED <<tmax, tretries, tstate, tattempt, abandoned>>
  /\ UNCHANGED <<component, batchVars, poolVars, breakerVars, retryVars, cacheVars>>
  /\ UNCHANGED <<semVars, recoverVars, queueVars, repeats>>

\* The timeout fires first: Promise.race rejects with 'Task timeout' and the
\* attempt has failed; nothing stops the runTask execution, which goes on.
RaceTimeout(i) ==
  /\ component = "race"
  /\ tpc[i] = "racing"
  /\ abandoned' = [abandoned EXCEPT ![i] = @ + 1]
  /\ RaceAttemptFailed(i)
  /\ UNCHANGED <<tmax, tretries, tstate, tattempt>>
  /\ UNCHANGED <<component, batchVars, poolVars, breakerVars, retryVars, cacheVars>>
  /\ UNCHANGED <<semVars, recoverVars, queueVars, repeats>>

\* The backoff delay ends: the loop's next attempt starts another runTask.
RaceBackoffEnd(i) ==
  /\ component = "race"
  /\ tpc[i] = "backoff"
  /\ tpc' = [tpc EXCEPT ![i] = "racing"]
  /\ tattempt' = [tattempt EXCEPT ![i] = @ + 1]
  /\ UNCHANGED <<tmax, tretries, tsem, tstate, abandoned>>
  /\ UNCHANGED <<component, batchVars, poolVars, breakerVars, retryVars, cacheVars>>
  /\ UNCHANGED <<semVars, recoverVars, queueVars, repeats>>

\* An abandoned runTask execution settles; nobody awaits it.
AbandonedEnds(i) ==
  /\ component = "race"
  /\ abandoned[i] > 0
  /\ abandoned' = [abandoned EXCEPT ![i] = @ - 1]
  /\ UNCHANGED <<tmax, tretries, tsem, tstate, tpc, tattempt>>
  /\ UNCHANGED <<component, batchVars, poolVars, breakerVars, retryVars, cacheVars>>
  /\ UNCHANGED <<semVars, recoverVars, queueVars, repeats>>

\* Promise.all resolves: processBatch returns.
RaceBatchReturn ==
  /\ component = "race"
  /\ tstate = "running"
  /\ \A i \in RaceTasks : tpc[i] = "done"
  /\ tstate' = "returned"
  /\ UNCHANGED <<tmax, tretries, tsem, tpc, tattempt, abandoned>>
  /\ UNCHANGED <<component, batchVars, poolVars, breakerVars, retryVars, cacheVars>>
  /\ UNCHANGED <<semVars, recoverVars, queueVars, repeats>>

RaceNext ==
  \/ RaceStartBatch
  \/ \E i \in RaceTasks : RaceBeginTask(i)
  \/ \E i \in RaceTasks, ok \in BOOLEAN : RaceExecutionEnds(i, ok)
  \/ \E i \in RaceTasks : RaceTimeout(i)
  \/ \E i \in RaceTasks : RaceBackoffEnd(i)
  \/ \E i \in RaceTasks : AbandonedEnds(i)
  \/ RaceBatchReturn

RaceInit ==
  /\ tmax \in 1..MaxConcurrentBound
  /\ tretries \in 1..MaxRetryBound
  /\ tsem = SemaphoreNew
  /\ tstate = "idle"
  /\ tpc = [i \in RaceTasks |-> "start"]
  /\ tattempt = [i \in RaceTasks |-> 0]
  /\ abandoned = [i \in RaceTasks |-> 0]

\* ------------------------------------------------------- specifications
\* The configuration of an object a behaviour does not exercise.
BatchParked == impl = "orchestrator" /\ maxConcurrent = 0 /\ retryLimit = 0
BreakerParked == failureThreshold = 1 /\ resetTimeout = 1 /\ halfOpenRetries = 1
RetryParked == executor = "parallel" /\ maxRetries = 0 /\ backoff = 0
\* No LearningStorage is in use.
CacheParked ==
  /\ clock = 0 /\ cacheOps = 0 /\ faults = 0 /\ everRecorded = {}
  /\ file = <<>> /\ call = <<>> /\ lpc = <<>> /\ fn = <<>> /\ nested = <<>>
  /\ xstage = <<>> /\ ldata = <<>> /\ ret = <<>> /\ learnedFailed = <<>>
  /\ quiet = <<>> /\ before = <<>> /\ prev = <<>> /\ seen = <<>>

\* No Semaphore is in use by itself.
SemaphoreParked ==
  /\ ssem = <<>> /\ smax = 0 /\ spc = <<>> /\ ticket = <<>> /\ stamp = <<>>
  /\ issued = 0
\* No ErrorRecovery is in use.
RecoverParked == RecoverInit
\* No task was ever queued.
QueueParked == QueueInit /\ qmax = 1
\* No batch whose attempts can time out is in progress.
RaceParked ==
  /\ tmax = 1 /\ tretries = 1 /\ tsem = <<>> /\ tstate = "idle" /\ tpc = <<>>
  /\ tattempt = <<>> /\ abandoned = <<>>
ExtraParked ==
  SemaphoreParked /\ RecoverParked /\ QueueParked /\ repeats = 0 /\ RaceParked

\* A behaviour exercises one object and leaves the others alone, in one fixed
\* configuration.
Init ==
  /\ component \in {"batch", "pool"}
  /\ BatchInit
  /\ PoolInit
  /\ BreakerInit
  /\ RetryInit
  /\ CacheParked
  /\ (component = "pool" => BatchParked)
  /\ BreakerParked
  /\ RetryParked
  /\ ExtraParked

Next == BatchNext \/ PoolNext

Spec == Init /\ [][Next]_vars

\* The CircuitBreaker by itself.
InitBreaker ==
  /\ component = "breaker"
  /\ BatchInit
  /\ PoolInit
  /\ BreakerInit
  /\ RetryInit
  /\ CacheParked
  /\ BatchParked
  /\ RetryParked
  /\ ExtraParked

BreakerSpec == InitBreaker /\ [][BreakerNext]_vars

\* A retry loop by itself.
InitRetry ==
  /\ component = "retry"
  /\ BatchInit
  /\ PoolInit
  /\ BreakerInit
  /\ RetryInit
  /\ CacheParked
  /\ BatchParked
  /\ BreakerParked
  /\ ExtraParked

RetrySpec == InitRetry /\ [][RetryNext]_vars

\* The LearningStorage with its concurrent users, SmartScraper.extract among
\* their calls.
InitCache ==
  /\ component = "cache"
  /\ BatchInit
  /\ PoolInit
  /\ BreakerInit
  /\ RetryInit
  /\ CacheInit
  /\ BatchParked
  /\ BreakerParked
  /\ RetryParked
  /\ ExtraParked

CacheSpec == InitCache /\ [][CacheNext]_vars

\* The LearningStorage with one user.
InitSolo ==
  /\ component = "solo"
  /\ BatchInit
  /\ PoolInit
  /\ BreakerInit
  /\ RetryInit
  /\ CacheInit
  /\ BatchParked
  /\ BreakerParked
  /\ RetryParked
  /\ ExtraParked

SoloSpec == InitSolo /\ [][AgingNext]_vars

\* The LearningStorage with one user and one call, at every age of an entry.
InitAging ==
  /\ component = "aging"
  /\ BatchInit
  /\ PoolInit
  /\ BreakerInit
  /\ RetryInit
  /\ CacheInit
  /\ BatchParked
  /\ BreakerParked
  /\ RetryParked
  /\ ExtraParked

AgingSpec == InitAging /\ [][AgingNext]_vars

\* Users of one Semaphore, acquiring and releasing in any order.
InitSemaphore ==
  /\ component = "semaphore"
  /\ SemaphoreInit
  /\ BatchInit /\ BatchParked
  /\ PoolInit
  /\ BreakerInit /\ BreakerParked
  /\ RetryInit /\ RetryParked
  /\ CacheParked
  /\ RecoverParked
  /\ QueueParked
  /\ repeats = 0
  /\ RaceParked

SemaphoreSpec == InitSemaphore /\ [][SemaphoreNext]_vars

\* Calls of ErrorRecovery.recover, one after the other.
InitRecover ==
  /\ component = "recover"
  /\ RecoverInit
  /\ BatchInit /\ BatchParked
  /\ PoolInit
  /\ BreakerInit /\ BreakerParked
  /\ RetryInit /\ RetryParked
  /\ CacheParked
  /\ SemaphoreParked
  /\ QueueParked
  /\ repeats = 0
  /\ RaceParked

RecoverSpec == InitRecover /\ [][RecoverNext]_vars

\* A TaskOrchestrator whose queue is filled, pruned and processed.
InitQueue ==
  /\ component = "queue"
  /\ QueueInit
  /\ BatchInit /\ BatchParked
  /\ PoolInit
  /\ BreakerInit /\ BreakerParked
  /\ RetryInit /\ RetryParked
  /\ CacheParked
  /\ SemaphoreParked
  /\ RecoverParked
  /\ repeats = 0
  /\ RaceParked

QueueSpec == InitQueue /\ [][QueueNext]_vars

\* A ParallelScraper on which extractMultiple is called more than once.
InitRepeat ==
  /\ component = "batch"
  /\ BatchInit
  /\ impl = "parallel"
  /\ PoolInit
  /\ BreakerInit /\ BreakerParked
  /\ RetryInit /\ RetryParked
  /\ CacheParked
  /\ ExtraParked

RepeatSpec == InitRepeat /\ [][RepeatNext]_vars

\* A processBatch of a TaskOrchestrator whose attempts can time out.
InitRace ==
  /\ component = "race"
  /\ RaceInit
  /\ BatchInit /\ BatchParked
  /\ PoolInit
  /\ BreakerInit /\ BreakerParked
  /\ RetryInit /\ RetryParked
  /\ CacheParked
  /\ SemaphoreParked /\ RecoverParked /\ QueueParked /\ repeats = 0

RaceSpec == InitRace /\ [][RaceNext]_vars

\* ================================================================ claims
InBatch == component = "batch"
InPool == component = "pool"

\* Tasks that hold a semaphore slot: acquire() has given them one and they
\* have not called release().
Holding == {i \in Tasks : pc[i] \in {"acquired", "running", "backoff", "settle"}}

\* The requests whose processing did not end in a successful extraction.
Failing == {i \in Tasks : outcome[i] # OkOutcome}

IsFailing(i) == i \in Failing
FailingSeq == SelectSeq([i \in 1..NumTasks |-> i], IsFailing)

SucceededCount ==
  IF impl = "orchestrator"
    THEN Cardinality({i \in Tasks : results[i].filled /\ results[i].success})
    ELSE formatted.summary.successful

FailedCount ==
  IF impl = "orchestrator"
    THEN Cardinality({i \in Tasks : results[i].filled /\ ~results[i].success})
    ELSE formatted.summary.failed

\* Slot `slot` holds the outcome of request i.
SlotIsOutcomeOf(slot, i) ==
  /\ slot.success = (outcome[i] = OkOutcome)
  /\ slot.success => slot.data = Payload(UrlOf(i))
  /\ (slot.success /\ impl = "parallel") => (slot.index = i /\ slot.url = UrlOf(i))
  /\ (~slot.success /\ outcome[i] # NoError) =>
       IF impl = "orchestrator"
         THEN slot.errorMessage = outcome[i].message
         ELSE slot.error = outcome[i]

\* C1: for a concurrency limit k >= 1, at every point of every interleaving
\* at most k tasks hold a semaphore slot, and Semaphore.currentConcurrent
\* stays within 0..maxConcurrent.
C1_ConcurrencyBound ==
  (InBatch /\ maxConcurrent >= 1) =>
    /\ Cardinality(Holding) <= maxConcurrent
    /\ sem.currentConcurrent <= maxConcurrent
    /\ sem.currentConcurrent >= 0

\* The limit is reached with a task waiting, after an earlier release.
C1_Witness ==
  /\ InBatch
  /\ maxConcurrent >= 1
  /\ Cardinality(Holding) = maxConcurrent
  /\ Len(sem.queue) > 0
  /\ \E i \in Tasks : pc[i] \in {"delay", "done"}

\* C2: partial failure.  A returned batch accounts for all N requests:
\* succeeded + failed = N, the failed count is the number of failing requests,
\* every other request is reported succeeded, every failed request carries a
\* non-empty error detail (its failure's message); and a batch in which an
\* extraction attempt was made and failed never ends by throwing.
C2_PartialFailure ==
  InBatch =>
    /\ batchState = "threw" => \A i \in Tasks : outcome[i] = NoError
    /\ batchState = "returned" =>
         /\ SucceededCount + FailedCount = NumTasks
         /\ FailedCount = Cardinality(Failing)
         /\ impl = "orchestrator" =>
              \A i \in Tasks :
                /\ results[i].filled
                /\ results[i].success = (i \notin Failing)
                /\ i \in Failing => results[i].errorMessage # ""
                /\ (i \in Failing /\ outcome[i] # NoError) =>
                     results[i].errorMessage = outcome[i].message
         /\ impl = "parallel" =>
              /\ formatted.summary.total = NumTasks
              /\ stats.failed = Cardinality(Failing)
              /\ stats.completed = NumTasks - Cardinality(Failing)
              /\ Len(formatted.failed) = Len(FailingSeq)
              /\ \A x \in DOMAIN formatted.failed :
                   /\ formatted.failed[x].error # ""
                   /\ formatted.failed[x].error = outcome[FailingSeq[x]].message

\* A returned batch whose middle request failed terminally and whose other
\* requests succeeded.
C2_Witness ==
  /\ InBatch
  /\ batchState = "returned"
  /\ outcome[2] = ExtractionFailed
  /\ \A i \in Tasks \ {2} : outcome[i] = OkOutcome

\* C3: a batch always completes, for every configured retry count (stated
\* here for the concurrency limits k >= 1): a batch that has not returned can
\* always take a step, so no task is blocked for ever in acquire and
\* formatting the results does not throw.
C3_BatchAlwaysCompletes ==
  (InBatch /\ maxConcurrent >= 1) => (batchState = "returned" \/ ENABLED BatchNext)

C5_LeasesExclusive ==
  /\ InPool =>
       /\ \A j1, j2 \in Jobs :
            (j1 # j2 /\ jpc[j1] = "holding" /\ jpc[j2] = "holding") => jctx[j1] # jctx[j2]
       /\ Cardinality(usedContexts) <= PoolSize
       /\ Cardinality({j \in Jobs : jpc[j] = "holding"}) <= PoolSize
  /\ InBatch =>
       /\ \A i, k \in Tasks :
            (i # k /\ ctx[i] # NoContext /\ ctx[k] # NoContext) => ctx[i] # ctx[k]
       /\ Cardinality({i \in Tasks : ctx[i] # NoContext}) <= contextCount

\* Every handle of the pool is leased, each to a different job.
C5_Witness ==
  /\ InPool
  /\ Cardinality(usedContexts) = PoolSize
  /\ Cardinality({jctx[j] : j \in {k \in Jobs : jpc[k] = "holding"}}) = PoolSize

\* C6: acquireContext on an exhausted pool suspends its caller: it does not
\* fail.
C6_AcquireBlocksWhenExhausted ==
  ~(InPool /\ poolPhase = "open" /\ lastCall.op = "acquire" /\ lastCall.result = "threw")

\* C7: the context an extractWithSharedContext call took is back in
\* sharedContexts when the call ends, however it ends, so processBatch ends
\* with as many pooled contexts as it started with.
C7_ContextReturned ==
  (InBatch /\ impl = "parallel") =>
    /\ \A i \in Tasks : pc[i] # "running" => ctx[i] = NoContext
    /\ batchState = "running" =>
         Len(sharedContexts) + Cardinality({i \in Tasks : ctx[i] # NoContext})
           = contextCount
    /\ batchState = "processed" => Len(sharedContexts) = contextCount

\* processBatch has ended after an attempt that held a context failed.
C7_Witness ==
  /\ InBatch
  /\ impl = "parallel"
  /\ batchState = "processed"
  /\ contextCount > 0
  /\ \E i \in Tasks : outcome[i] = ExtractionFailed

\* C8: when releaseContext(c) for a leased c ends, normally or with an
\* error, c is in availableContexts and not in usedContexts.
C8_ReleaseReturnsHandle ==
  [][\A j \in Jobs :
       (jpc[j] = "releasing" /\ jpc'[j] = "idle") =>
         (jctx[j] \in Range(availableContexts') /\ jctx[j] \notin usedContexts')]_vars

\* C9: releasing a handle that is already available, or was never leased,
\* never puts a handle twice in the available set and never lets a handle be
\* leased twice at once.
C9_DoubleReleaseGuarded ==
  InPool =>
    /\ \A x, y \in DOMAIN availableContexts :
         x # y => availableContexts[x] # availableContexts[y]
    /\ Range(availableContexts) \cap usedContexts = {}
    /\ \A j \in Jobs : jpc[j] = "holding" =>
         /\ jctx[j] \notin Range(availableContexts)
         /\ \A k \in Jobs \ {j} : jpc[k] # "idle" => jctx[k] # jctx[j]

\* releaseContext was called on a handle that is available.
C9_Witness ==
  /\ InPool
  /\ lastCall.op = "doubleRelease"
  /\ lastCall.ctx \in Range(availableContexts)
  /\ \E j \in Jobs : jpc[j] = "holding"

\* C10: once cleanup has completed no handle is handed out again.
C10_NoLeaseAfterDrain ==
  (InPool /\ poolPhase = "closed") =>
    usedContexts = {}

\* ---------------------------------------------------- CircuitBreaker claims
\* A step in which an execute call is made.
ExecuteStep == calls' = calls + 1
\* A step in which a running call ends with a failure / with a success.
FailureStep == streak' = streak + 1
SuccessStep == streak' = 0 /\ \E c \in Callers : cpc[c] = "running" /\ cpc'[c] = "idle"

\* C11 (as claimed): after failureThreshold consecutive failed calls, the
\* very next execute call made before the reset timeout has elapsed is
\* rejected with the circuit-open error, and its operation is not invoked.
C11_NextCallRejected ==
  [][(ExecuteStep /\ streak >= failureThreshold
        /\ now - lastFailureTime < resetTimeout)
       => verdict' = "rejected"]_vars

\* C11 (amended): after failureThreshold consecutive failed calls, the very
\* next execute call made before the reset timeout has elapsed does not
\* invoke its operation and leaves the breaker OPEN: it is rejected with the
\* circuit-open error, or answered by its fallback when one was passed.
C11_NextCallNotInvoked ==
  [][(ExecuteStep /\ streak >= failureThreshold
        /\ now - lastFailureTime < resetTimeout)
       => /\ verdict' \in {"rejected", "fallback"}
          /\ cpc' = cpc
          /\ state = "OPEN" /\ state' = "OPEN"]_vars

\* Two failures in a row opened the breaker and the next call was rejected
\* before the reset timeout.
C11_Witness ==
  /\ component = "breaker"
  /\ failureThreshold = 2
  /\ streak = 2
  /\ state = "OPEN"
  /\ verdict = "rejected"
  /\ now - lastFailureTime < resetTimeout

\* C12: in CLOSED every failure adds one to the failure count and every
\* success resets it to 0: the count is the number of failures since the
\* most recent success, and the breaker leaves CLOSED for OPEN exactly in
\* the step in which that number reaches failureThreshold, in whatever
\* order concurrent calls complete.
C12_OpensAtThreshold ==
  [][state = "CLOSED" =>
       /\ failures = streak /\ failures' = streak'
       /\ failures < failureThreshold
       /\ (state' = "OPEN") <=> (FailureStep /\ streak' = failureThreshold)
       /\ state' \in {"CLOSED", "OPEN"}]_vars

\* A success, then failureThreshold failures: the breaker has just opened.
C12_Witness ==
  /\ component = "breaker"
  /\ failureThreshold = 2
  /\ state = "OPEN"
  /\ openedAt = now
  /\ failures = 2
  /\ calls = 3
  /\ verdict = "invoked"
  /\ \A c \in Callers : cpc[c] = "idle"

\* C13: an execute call on an OPEN breaker is rejected without invoking the
\* operation if and only if now - openedAt < resetTimeout, openedAt being
\* the time of the transition into OPEN; a call made when
\* now - openedAt >= resetTimeout moves the breaker to HALF_OPEN and invokes
\* the operation.
C13_OpenUntilResetTimeout ==
  [][(ExecuteStep /\ state = "OPEN") =>
       IF now - openedAt < resetTimeout
         THEN verdict' \in {"rejected", "fallback"} /\ state' = "OPEN"
         ELSE verdict' = "invoked" /\ state' = "HALF_OPEN"]_vars

\* C14: a call that fails while the breaker is HALF_OPEN moves it back to
\* OPEN at once, with the time of that failure as opening time, whatever
\* number of probe successes came before.
C14_HalfOpenFailureReopens ==
  [][(state = "HALF_OPEN" /\ FailureStep) =>
       (state' = "OPEN" /\ lastFailureTime' = now)]_vars

C16_SingleProbe ==
  [][(ExecuteStep /\ \E c \in Callers : cpc[c] = "running" /\ admittedIn[c] = "HALF_OPEN")
       => verdict' # "invoked"]_vars

\* ------------------------------------------------------- retry loop claims
InRetry == component = "retry"
Finished == rpc \in {"returned", "threw"}
\* Every invocation so far failed with a recoverable error.
AllRecoverableFailures ==
  \A k \in 1..Len(attemptResults) :
    attemptResults[k] # OkOutcome /\ IsRecoverable(attemptResults[k])
NonRecoverableFailure(o) == o # OkOutcome /\ ~IsRecoverable(o)

\* C17: with a limit of n >= 1 attempts and base delay b the invocations
\* carry the attempt numbers 1, 2, ... in order and are at most n; the wait
\* after attempt i is b * multiplier^(i-1) (the multiplier is 2 in withRetry
\* and by default in executeWithRetry) and no wait follows the last attempt;
\* an operation that fails n times with a recoverable error is invoked
\* exactly n times and the loop throws the error of attempt n; an operation
\* that succeeds on attempt i is invoked exactly i times and the loop
\* returns.
C17_RetryBackoff ==
  (InRetry /\ maxRetries >= 1 /\ rpc # "idle") =>
    /\ invocations = [k \in 1..Len(invocations) |-> k]
    /\ Len(invocations) <= maxRetries
    /\ \A k \in 1..Len(waits) : waits[k] = backoff * backoffMultiplier ^ (k - 1)
    /\ executor = "parallel" => backoffMultiplier = 2
    /\ Len(waits) = IF rpc = "waiting" THEN Len(invocations) ELSE Len(invocations) - 1
    /\ Len(attemptResults) = IF rpc = "calling" THEN Len(invocations) - 1
                                                ELSE Len(invocations)
    /\ (AllRecoverableFailures /\ Len(attemptResults) < maxRetries) => ~Finished
    /\ (AllRecoverableFailures /\ Len(attemptResults) = maxRetries) =>
         /\ rpc = "threw"
         /\ Len(invocations) = maxRetries
         /\ Len(waits) = maxRetries - 1
         /\ rthrown = attemptResults[maxRetries]
    /\ \A k \in 1..Len(attemptResults) : attemptResults[k] = OkOutcome =>
         /\ rpc = "returned"
         /\ Len(invocations) = k
         /\ Len(waits) = k - 1
    /\ rpc = "returned" => attemptResults[Len(attemptResults)] = OkOutcome

\* Three attempts that each timed out, with waits of 100 and 200 between.
C17_Witness ==
  /\ InRetry
  /\ executor = "parallel"
  /\ maxRetries = 3
  /\ backoff = 100
  /\ rpc = "threw"
  /\ invocations = <<1, 2, 3>>
  /\ waits = <<100, 200>>
  /\ rthrown = NavigationTimeout

\* C18: withRetry rethrows an error that isRecoverable does not accept at
\* once: the attempt that threw it is the last invocation, no wait follows
\* it, and the loop throws that error, whatever the limit is.
C18_NonRecoverableNotRetried ==
  (InRetry /\ executor = "parallel") =>
    \A k \in 1..Len(attemptResults) :
      NonRecoverableFailure(attemptResults[k]) =>
        /\ k = Len(attemptResults)
        /\ rpc = "threw"
        /\ rthrown = attemptResults[k]
        /\ Len(invocations) = k
        /\ Len(waits) = k - 1

\* withRetry with a limit of 3 stopped after the first attempt, which
\* failed for want of a browser context.
C18_Witness ==
  /\ InRetry
  /\ executor = "parallel"
  /\ maxRetries = 3
  /\ attemptResults = <<PoolExhausted>>
  /\ rpc = "threw"

\* C19: in the orchestrator an attempt that fails with an error that is not
\* marked recoverable is the task's last attempt.
C19_OrchestratorStopsOnNonRecoverable ==
  (InRetry /\ executor = "orchestrator") =>
    \A k \in 1..Len(attemptResults) :
      NonRecoverableFailure(attemptResults[k]) =>
        (k = Len(attemptResults) /\ Len(invocations) = k /\ Len(waits) = k - 1)

\* C20: in withRetry the wait that follows an attempt that failed with a
\* RateLimitError carrying a retry-after hint is the hinted time.
C20_RetryAfterHonoured ==
  (InRetry /\ executor = "parallel") =>
    \A k \in 1..Len(waits) :
      attemptResults[k].cls = "RateLimitError" =>
        waits[k] = attemptResults[k].retryAfter

\* ----------------------------------------------- LearningStorage claims
InCache == component \in {"cache", "solo", "aging"}

\* ------------------------------------------------------ batch and breaker
\* C30: in a batch every extraction outcome is reported to the circuit
\* breaker: once a request of the batch has an outcome, the breaker has been
\* called.  (Neither processBatch refers to a CircuitBreaker.)
C30_OutcomesReportedToBreaker ==
  InBatch => \A i \in Tasks : outcome[i] # NoError => calls > 0

\* ------------------------------------------------- confidence and lookup
\* The step in which user t's lookup returns.
LookupEnds(t) ==
  call[t].op = "getLearnedPatterns" /\ lpc[t] # "idle" /\ lpc'[t] = "idle"

\* What the claimed tiers make of an entry that has the given age at the
\* time of the lookup.
TierOf(age, r) ==
  /\ age <= 7 * Day => r # Absent /\ r.confidence = 100
  /\ (age > 7 * Day /\ age <= 30 * Day) => r # Absent /\ r.confidence = 80
  /\ (age > 30 * Day /\ age <= 90 * Day) => r # Absent /\ r.confidence = 60
  /\ (age > 90 * Day /\ age <= 180 * Day) => r # Absent /\ r.confidence = 40
  /\ age > 180 * Day => r = Absent

\* C21 as stated: the confidence of a lookup is the tier of the number of
\* whole days since the entry's last success (7 days and a half are 7 whole
\* days: 1.0).
C21_TiersOfWholeDays ==
  [][(Solo /\ LookupEnds(1) /\ faults' = 0 /\ before[1][call[1].domain] # NoRecord)
       => TierOf(((clock - before[1][call[1].domain].lastSuccess) \div Day) * Day,
                 ret'[1])]_vars

\* C21, amended: the confidence of a lookup is the tier of the time elapsed
\* since the entry's last success, not rounded to days: up to 7 days 1.0, up
\* to 30 days 0.8, up to 90 days 0.6, up to 180 days 0.4, absent beyond; a
\* domain without entry is absent.
C21_TiersOfElapsedTime ==
  [][(Solo /\ LookupEnds(1) /\ faults' = 0)
       => IF before[1][call[1].domain] = NoRecord
            THEN ret'[1] = Absent
            ELSE TierOf(clock - before[1][call[1].domain].lastSuccess, ret'[1])]_vars

\* A lookup of an entry 7 days and a tick old has returned 0.8.
C21_Witness ==
  /\ Solo /\ faults = 0
  /\ call[1].op = "getLearnedPatterns" /\ lpc[1] = "idle"
  /\ ret[1] # Absent /\ ret[1].confidence = 80
  /\ clock - ret[1].lastSuccess = 7 * Day + 1

\* The confidence a lookup returned; absent counts as none.
ConfidenceOf(r) == IF r = Absent THEN 0 ELSE r.confidence

\* C22: for a domain, with no recordSuccess for it in between and no storage
\* failure, a lookup never returns a higher confidence than the lookup before
\* it, and returns absent when that one returned absent.
C22_ConfidenceNeverIncreases ==
  [][\A t \in CacheTasks :
       (LookupEnds(t) /\ faults' = 0)
         => ConfidenceOf(ret'[t]) <= seen[call[t].domain]]_vars

\* ------------------------------------------------------------ round trip
\* User 1's lookup returns, for the pair its recordSuccess just before was
\* for, with nothing in between: no other call, storage failure or passage
\* of time since that recordSuccess began.
RoundTripEnds ==
  /\ Solo /\ LookupEnds(1) /\ quiet'[1]
  /\ prev[1].call.op = "recordSuccess"
  /\ prev[1].call.domain = call[1].domain
  /\ prev[1].call.category = call[1].category

\* The timing recordSuccess stores for the timing it is given.
StoredTiming(timing, t) ==
  IF timing = NoTiming THEN NoTiming
  ELSE [delay |-> IF timing.delay = 0 THEN 3000 ELSE timing.delay,
        timeout |-> IF timing.timeout = 0 THEN 30000 ELSE timing.timeout,
        lastUpdated |-> t]

\* The entry of the domain before the recordSuccess, if it was within the
\* maximum age.
EntryBefore ==
  LET e == prev[1].before[call[1].domain] IN
  IF e = NoRecord \/ clock - e.lastSuccess > CacheMaxAge THEN BlankRecord ELSE e

\* C23 as stated: the lookup right after a recordSuccess returns the strategy,
\* extractors, selectors and timing of that recordSuccess with confidence 1.0,
\* whatever entry the domain had before.
C23_RoundTripAllStored ==
  [][RoundTripEnds =>
       /\ ret'[1] # Absent
       /\ ret'[1].strategy = prev[1].call.strategy
       /\ ret'[1].extractors = prev[1].call.input.extractorTypes
       /\ ret'[1].selectors = prev[1].call.input.selectors
       /\ ret'[1].timing = StoredTiming(prev[1].call.input.timing, clock)
       /\ ret'[1].confidence = 100]_vars

\* C23, amended: the lookup returns the strategy of that recordSuccess with
\* confidence 1.0 and its time as last success; extractors, selectors and
\* timing are those of the recordSuccess where its data had them, and
\* otherwise those the domain's entry had before (none if it had no entry
\* within the maximum age).
C23_RoundTripStoredOrKept ==
  [][RoundTripEnds =>
       LET x == prev[1].call.input IN
       /\ ret'[1] # Absent
       /\ ret'[1].strategy = prev[1].call.strategy
       /\ ret'[1].confidence = 100
       /\ ret'[1].lastSuccess = clock
       /\ ret'[1].extractors =
            IF x.extractorTypes # "undefined"
              THEN x.extractorTypes ELSE EntryBefore.successfulExtractors
       /\ ret'[1].selectors =
            IF x.selectors # "undefined"
              THEN x.selectors ELSE EntryBefore.workingSelectors[call[1].category]
       /\ ret'[1].timing =
            IF x.timing # NoTiming
              THEN StoredTiming(x.timing, clock) ELSE EntryBefore.optimalTiming]_vars

\* A lookup right after a recordSuccess without extractors has returned the
\* new strategy with the extractors of the entry before.
C23_Witness ==
  /\ Solo /\ quiet[1] /\ lpc[1] = "idle"
  /\ call[1].op = "getLearnedPatterns"
  /\ prev[1].call.op = "recordSuccess"
  /\ prev[1].call.domain = call[1].domain
  /\ prev[1].call.category = call[1].category
  /\ prev[1].call.input = DataBare
  /\ ret[1] # Absent
  /\ ret[1].strategy = "learned"
  /\ ret[1].extractors = DataFull.extractorTypes
  /\ ret[1].confidence = 100

\* ------------------------------------------------------ storage failures
StorageOps == {"recordSuccess", "getLearnedPatterns", "bustCache"}

\* The step in which the LearningStorage call of user t ends.
StorageCallEnds(t) ==
  call[t].op \in StorageOps /\ lpc[t] # "idle" /\ lpc'[t] = "idle"

\* C24: no call of the LearningStorage throws; a lookup during which a read or
\* write of the file fails returns absent, and recordSuccess and bustCache
\* return normally whether their reads and writes fail or not.
C24_NoFailurePropagates ==
  [][\A t \in CacheTasks :
       StorageCallEnds(t) =>
         /\ ret'[t] # Threw
         /\ (call[t].op = "getLearnedPatterns" /\ faults' > faults) => ret'[t] = Absent
         /\ call[t].op # "getLearnedPatterns" => ret'[t] = Returned]_vars

\* The only call made was a lookup of an entry that is in the file and within
\* the maximum age; a read failed and the lookup returned absent.
C24_Witness ==
  /\ InCache /\ cacheOps = 1 /\ faults = 1 /\ clock = 0
  /\ file["a.com"] # NoRecord
  /\ \E t \in CacheTasks :
       /\ call[t].op = "getLearnedPatterns" /\ call[t].domain = "a.com"
       /\ lpc[t] = "idle" /\ ret[t] = Absent

\* ------------------------------------------------------ concurrent updates
\* C25: when two users have called recordSuccess for different domains, these
\* being the only calls, and both calls have returned with no storage failure,
\* the file holds the entries of both.
C25_BothUpdatesPersisted ==
  \A t, u \in CacheTasks :
    ( /\ component = "cache" /\ cacheOps = 2 /\ faults = 0 /\ clock = 0
      /\ lpc[t] = "idle" /\ lpc[u] = "idle"
      /\ call[t].op = "recordSuccess" /\ call[t].domain = "a.com"
      /\ call[u].op = "recordSuccess" /\ call[u].domain = "b.org" )
    => file["a.com"] # NoRecord /\ file["b.org"] # NoRecord

\* ------------------------------------------------------------ invalidation
\* A step of user 1's bustCache call.
BustStep == Solo /\ call[1].op = "bustCache" /\ lpc[1] # "idle"

C27_KeyedByDomainAndCategory ==
  \A t \in CacheTasks :
    ( /\ InCache /\ call[t].op = "getLearnedPatterns" /\ lpc[t] = "idle"
      /\ ret[t] # Absent )
    => <<call[t].domain, call[t].category>> \in everRecorded

\* ------------------------------------------------- SmartScraper.extract
\* The step in which user t's extract ends.
ExtractEnds(t) == call[t].op = "extract" /\ lpc[t] # "idle" /\ lpc'[t] = "idle"

\* C28: when an extract whose learned extraction threw or yielded data that
\* is not valid ends without having recorded a new success, the file has no
\* entry for the domain (the extract being the only call, with no storage
\* failure).
C28_FailedPatternInvalidated ==
  [][\A t \in CacheTasks :
       ( /\ ExtractEnds(t) /\ cacheOps = 1 /\ faults' = 0
         /\ learnedFailed'[t] \in {"threw", "invalid"}
         /\ xstage[t] # "success" )
       => file'[call[t].domain] = NoRecord]_vars

\* ------------------------------------------------------------------ purge
\* C29: a load that purges entries older than the maximum age returns the
\* entries within the maximum age unchanged.  Seen where user 1's
\* recordSuccess goes on from such a load: the data it is about to save hold
\* the other domains' entries within the maximum age as the file has them.
C29_LoadKeepsFreshRecords ==
  [][(Solo /\ lpc[1] = "purge" /\ fn[1] = "recordSuccess" /\ lpc'[1] = "save")
       => \A h \in Domains \ {call[1].domain} :
            (file[h] # NoRecord /\ clock - file[h].lastSuccess <= CacheMaxAge)
              => ldata'[1][h] = file[h]]_vars

\* ------------------------------------------------- breaker state invariant
\* C34: whenever the CircuitBreaker is OPEN its failure count is at least
\* failureThreshold.
C34_OpenImpliesThresholdReached ==
  (component = "breaker" /\ state = "OPEN") => failures >= failureThreshold

\* ------------------------------------------------ overlapping pool releases
\* C39: a releaseContext of a leased handle whose clearCookies resolved (the
\* handle is pushed back) ends without throwing, whatever other releases
\* overlap it.
C39_OverlappingReleasesComplete ==
  [][\A j \in Jobs :
       (/\ jpc[j] = "releasing" /\ jpc'[j] = "idle"
        /\ Len(availableContexts') > Len(availableContexts))
         => lastCall'.result = "ok"]_vars

\* ------------------------------------------- write failure and fresh records
\* A record of the file that is within the maximum age at the current time.
FreshInFile(h) == file[h] # NoRecord /\ ~IsStale(file[h], clock)

\* C40: a storage write failure never hides or destroys a record within the
\* maximum age: when the persist of the load-time sweep ends, failed or not, a
\* lookup returns the record of its domain that is within the maximum age,
\* and the cache recordSuccess goes on to write holds the records of the other
\* domains that are within the maximum age.
C40_WriteFailureKeepsFreshRecords ==
  [][(Solo /\ lpc[1] = "purge") =>
       /\ (LookupEnds(1) /\ FreshInFile(call[1].domain))
            => ret'[1] = LearnedPatterns(file[call[1].domain], call[1].category, clock)
       /\ (fn[1] = "recordSuccess" /\ lpc'[1] = "save")
            => \A h \in Domains \ {call[1].domain} :
                 FreshInFile(h) => ldata'[1][h] = file[h]]_vars


\* ------------------------------------------------------- slot accounting
\* The requests suspended in acquire().
Waiting == {i \in Tasks : pc[i] = "waiting"}

\* C31: every task releases its slot exactly once on every exit path, and
\* none releases a slot it did not acquire: the slots taken are exactly those
\* of the tasks between their acquire and their release, the wait queue
\* holds exactly the tasks suspended in acquire, each once, the semaphore
\* changes during the batch only in the release of a task that holds a slot,
\* a task that released never holds or waits again, and when processBatch
\* has returned no slot is taken and no task waits.
C31_SlotsReleasedExactlyOnce ==
  [][InBatch =>
       /\ sem.currentConcurrent = Cardinality(Holding)
       /\ Range(sem.queue) = Waiting /\ Len(sem.queue) = Cardinality(Waiting)
       /\ (batchState = "running" /\ sem' # sem) =>
             \E i \in Holding : pc[i] = "settle" /\ pc'[i] \in {"delay", "done"}
       /\ \A i \in Tasks :
             pc[i] \in {"delay", "done"} => pc'[i] \in {"delay", "done"}
       /\ batchState \in {"processed", "returned"} =>
             sem.currentConcurrent = 0 /\ sem.queue = <<>>]_vars

\* A batch has returned in which a task failed, a task succeeded and a task
\* had to wait for a slot.
C31_Witness ==
  /\ InBatch
  /\ batchState \in {"processed", "returned"}
  /\ maxConcurrent >= 1 /\ maxConcurrent < NumTasks
  /\ sem.currentConcurrent = 0 /\ sem.queue = <<>>
  /\ \E i, j \in Tasks : outcome[i] = OkOutcome /\ outcome[j] \notin {OkOutcome, NoError}

\* ------------------------------------------------------ waiters in order
\* The users that have a slot: their acquire() was granted one or release()
\* handed them one.
Slotted == {u \in SemUsers : spc[u] \in {"granted", "woken", "holding"}}

\* C32: the Semaphore serves its waiters first in, first out, with no
\* barging: release() resumes the waiter whose acquire came first; a user
\* resumed by release() keeps the slot until it runs, whatever acquires are
\* made meanwhile; an acquire is granted at once only when nobody waits and a
\* slot is free; and the users with a slot never outnumber maxConcurrent.
C32_WaitersServedInOrder ==
  [][component = "semaphore" =>
       /\ \A u \in SemUsers :
            (spc[u] = "waiting" /\ spc'[u] # "waiting") =>
               /\ spc'[u] = "woken"
               /\ \A v \in SemUsers : spc[v] = "waiting" => ticket[u] <= ticket[v]
       /\ \A u \in SemUsers :
            spc[u] = "woken" => spc'[u] \in {"woken", "holding"}
       /\ \A u \in SemUsers :
            (spc[u] = "idle" /\ spc'[u] = "granted") =>
               /\ \A v \in SemUsers : spc[v] # "waiting"
               /\ Cardinality(Slotted) < smax
       /\ Cardinality(Slotted') <= smax
       /\ ssem'.currentConcurrent = Cardinality(Slotted')]_vars

\* A waiter has been resumed by release() and has not run yet; an acquire
\* made since then waits behind it, and a third user waits in front of that
\* one.
C32_Witness ==
  /\ component = "semaphore"
  /\ \E w, u, v \in SemUsers :
       /\ spc[w] = "woken" /\ spc[u] = "waiting" /\ spc[v] = "waiting"
       /\ ticket[u] > stamp[w]
       /\ ticket[v] < ticket[u]

\* ------------------------------------------------- recovery strategies
\* The strategies recover has invoked are the first ones registered for the
\* error's class, in registered order.
TriedInOrder ==
  /\ Len(tried) <= Len(RegisteredStrategies(errClass))
  /\ \A k \in 1..Len(tried) : tried[k].strategy = RegisteredStrategies(errClass)[k]

\* C35: recover tries the strategies registered for the error's class in
\* registered order, treats a throwing strategy as a failed one, returns the
\* result of the first strategy that reports success without invoking a
\* later one, and returns success = false only when no strategy reported
\* success: 'All recovery strategies exhausted' after all of them were
\* tried, 'No recovery strategy available' for a class with none.
C35_FirstSuccessfulStrategyWins ==
  component = "recover" =>
    /\ TriedInOrder
    /\ \A k \in 1..(Len(tried) - 1) : tried[k].outcome # "success"
    /\ recpc = "awaiting" =>
         /\ strategyIndex = Len(tried) + 1
         /\ \A k \in 1..Len(tried) : tried[k].outcome # "success"
    /\ recpc = "returned" =>
         IF NoStrategies(errClass)
           THEN recovered = NoStrategyAvailable /\ tried = <<>>
         ELSE IF \E k \in 1..Len(tried) : tried[k].outcome = "success"
           THEN /\ tried[Len(tried)].outcome = "success"
                /\ recovered = StrategyResult(tried[Len(tried)].strategy)
           ELSE /\ recovered = StrategiesExhausted
                /\ Len(tried) = Len(RegisteredStrategies(errClass))

\* recover has returned the result of its second strategy after the first
\* one threw, with the third one not invoked.
C35_Witness ==
  /\ component = "recover"
  /\ recpc = "returned"
  /\ Len(tried) = 2
  /\ tried[1].outcome = "throws"
  /\ recovered.success
  /\ Len(RegisteredStrategies(errClass)) = 3

\* -------------------------------------------------- processing the queue
\* How often processTask was called for the task with the given queue id.
TimesStarted(id) == Cardinality({k \in DOMAIN started : started[k] = id})

\* C36: processQueue processes exactly the tasks that were queued when it
\* was called, each once, and leaves the queue empty of them; a task added
\* while it runs is not processed by it and stays queued; a task removed
\* from the queue before processQueue is never processed.
C36_ProcessesExactlyTheSnapshot ==
  component = "queue" =>
    /\ \A id \in issuedIds : TimesStarted(id) <= 1
    /\ Range(started) \subseteq takenIds
    /\ Range(queue) \cap takenIds = {}
    /\ removedIds \cap Range(started) = {}
    /\ qstate = "running" =>
         /\ Range(started) \cap lateIds = {}
         /\ \A id \in lateIds : id \in Range(queue) \/ id \in removedIds
    /\ qstate = "returned" => Range(started) = takenIds

\* A processQueue has returned having processed the tasks it took; a task
\* added while it ran is still queued and unprocessed, and a task that was
\* queued earlier and removed before the call was not processed.
C36_Witness ==
  /\ component = "queue"
  /\ qstate = "returned"
  /\ Len(qtasks) >= 1
  /\ Range(started) = Range(qtasks)
  /\ \E id \in lateIds : id \in Range(queue) /\ TimesStarted(id) = 0
  /\ \E id \in removedIds : id < qtasks[1]

\* C37: an id returned by addToQueue can be tracked through the task's whole
\* life: unless the task was removed from the queue, getTaskStatus(id)
\* reports queued, running, completed or failed, never not_found, and
\* completed or failed once the processQueue that took the task has
\* returned.
C37_QueuedTaskTrackable ==
  component = "queue" =>
    \A id \in issuedIds \ removedIds :
      /\ GetTaskStatus(id) # "not_found"
      /\ (id \in takenIds /\ qstate = "returned")
           => GetTaskStatus(id) \in {"completed", "failed"}

\* ------------------------------------------------------ progress counters
\* getProgress().percentage: Math.round of the ratio in percent.
Percentage(st) ==
  IF st.total > 0
    THEN (200 * (st.completed + st.failed) + st.total) \div (2 * st.total)
    ELSE 0

\* C38: the progress counters of a ParallelScraper are consistent in every
\* reachable state, also when extractMultiple is called more than once on the
\* instance: completed + failed never exceeds total (the percentage never
\* exceeds 100), and when a batch has returned completed + failed is the
\* batch total and they are the summary's successful and failed counts.
C38_ProgressCountersConsistent ==
  (component = "batch" /\ impl = "parallel") =>
    /\ stats.completed + stats.failed <= stats.total
    /\ Percentage(stats) <= 100
    /\ batchState = "returned" =>
         /\ stats.completed + stats.failed = stats.total
         /\ stats.completed = formatted.summary.successful
         /\ stats.failed = formatted.summary.failed

\* ------------------------------------------------ executions in flight
\* C33: in the TaskOrchestrator the runTask executions in flight never
\* outnumber maxConcurrent, also after an attempt was abandoned by the
\* 'Task timeout' of executeTask and the task is retried or its slot
\* released.
C33_RunTasksWithinLimit ==
  component = "race" => RunTasksInFlight <= tmax

====
